---- MODULE Spec2Model ----
(***************************************************************************)
(* Model of the indexing orchestrator of llm_api_server/rag/indexer.py     *)
(* (class DocSearchIndex) together with the parts of rag/crawler.py it     *)
(* calls.  The state is the cache directory (metadata.json, chunks.json,   *)
(* parent_chunks.json, crawl_state.json, pages/, index/faiss_index), the   *)
(* fields of one DocSearchIndex instance, the locals of a running          *)
(* crawl_and_index call, and the environment (the site, the clock, the     *)
(* configuration).                                                         *)
(***************************************************************************)
EXTENDS Integers, Sequences, FiniteSets, TLC

\* ------------------------------------------------------------------ bounds
\* Number of URLs of the site.
NumUrls == 2
\* Number of versions (lastmod values) a page of the site can go through.
MaxVer == 2
\* Number of calls (crawl_and_index, load_index, ...) in one behaviour.
MaxCalls == 3
\* Number of calls that are killed in one behaviour.
MaxKills == 1
\* RAGConfig.max_url_retries as configured in the model.
max_url_retries == 2

\* `lastmod` of a URL record that carries none (url_info.get("lastmod") is None).
NoLastmod == 0

URLS == 1..NumUrls
Lastmods == 1..MaxVer
Models == {"m1", "m2"}
\* Threads of the server that call get_system_prompt.
NumThreads == 2
\* Texts the prompt file is written with.
NumTexts == 2
\* The latest time the filesystem clock reaches.
MaxClock == 2
\* Weights of the hybrid search are counted in units of 1/WeightScale.
WeightScale == 200
\* Pages of the site the DocumentCrawler walks; page 1 is base_url.
NumPages == 3
\* DocumentCrawler.max_crawl_depth
max_crawl_depth == 1
\* The largest max_pages a DocumentCrawler is built with.
MaxPagesLimit == 2
\* The largest top_k a search asks for.
MaxTopK == 2
\* RAGConfig.parent_context_max_chars, in units of the model's page text.
parent_context_max_chars == 1
\* The largest number of <url> elements of a sitemap and of <sitemap> elements
\* of a sitemap index.
MaxSitemapLen == 2
\* The largest number of candidates the hybrid retriever hands to the re-ranker.
MaxCandidates == 3
\* The cross-encoder's scores lie in -MaxLogit..MaxLogit.
MaxLogit == 1
\* The largest max_iterations of a chat request.
MaxIterations == 3
\* The largest number of content tokens of a backend response.
MaxTokens == 2
\* parent_id of a chunk that has no parent (None).
NoParent == <<>>

\* ------------------------------------------------------------------ state
VARIABLES
    \* --- environment
    site_lastmod,        \* URL -> lastmod the sitemap reports (the page's version)
    config_max_pages,    \* RAGConfig.max_pages
    config_embedding_model, \* RAGConfig.embedding_model
    \* --- cache directory
    metadata_file,       \* metadata.json
    chunks_file,         \* chunks.json
    parent_chunks_file,  \* parent_chunks.json
    crawl_state_file,    \* crawl_state.json
    page_cache,          \* pages/{sha256(url)}.json
    faiss_index,         \* index/faiss_index and index/faiss_index.sha256
    \* --- fields of the DocSearchIndex instance
    chunks,
    parent_chunks,
    child_to_parent,
    vectorstore,
    bm25_retriever,
    \* --- the call in progress
    pc,                  \* position of the running call
    run,                 \* locals of crawl_and_index
    result,              \* how the last call ended
    prev_kill,           \* where the previous call was killed, if it was
    calls,               \* number of calls started so far
    kills,               \* number of calls killed so far
    \* --- the DocumentCrawler
    crawler,             \* fields of the DocumentCrawler instance
    crawl,               \* locals of one discovery and of the fetch phase after it
    \* --- RAGConfig
    rag_config,          \* the arguments of one RAGConfig(...) and what came of it
    \* --- the LLMServer and its system prompt file
    prompt_file,         \* the file at SYSTEM_PROMPT_PATH
    fs_clock,            \* the time the filesystem stamps a write with
    server,              \* _system_prompt_cache and _system_prompt_mtime
    callers,             \* the calls of get_system_prompt in progress, one per thread
    \* --- threads over one loaded DocSearchIndex
    background,          \* ensemble_retriever, the background task and a searching thread
    \* --- one chat request of the LLMServer
    chat                 \* the tool-calling loop of one request

env_vars == <<site_lastmod, config_max_pages, config_embedding_model>>
disk_vars == <<metadata_file, chunks_file, parent_chunks_file, crawl_state_file,
               page_cache, faiss_index>>
mem_vars == <<chunks, parent_chunks, child_to_parent, vectorstore, bm25_retriever>>
index_vars == <<site_lastmod, config_max_pages, config_embedding_model,
                metadata_file, chunks_file, parent_chunks_file, crawl_state_file,
                page_cache, faiss_index,
                chunks, parent_chunks, child_to_parent, vectorstore, bm25_retriever,
                pc, run, result, prev_kill, calls, kills>>
crawler_vars == <<crawler, crawl>>
server_vars == <<prompt_file, fs_clock, server, callers>>
service_vars == <<background, chat>>
other_vars == <<crawler_vars, rag_config, server_vars, service_vars>>
vars == <<site_lastmod, config_max_pages, config_embedding_model,
          metadata_file, chunks_file, parent_chunks_file, crawl_state_file,
          page_cache, faiss_index,
          chunks, parent_chunks, child_to_parent, vectorstore, bm25_retriever,
          pc, run, result, prev_kill, calls, kills, other_vars>>

\* ------------------------------------------------------------------ helpers
Range(s) == {s[i] : i \in 1..Len(s)}

\* The HTML the site serves for URL u at version v.  The last version of every
\* page is the same text on every URL (identical content at different URLs);
\* every earlier version is particular to its URL.
Html(u, v) == IF v = MaxVer THEN <<0, v>> ELSE <<u, v>>
SiteHtml(u) == Html(u, site_lastmod[u])

ChunkIds(cs) == {cs[i].chunk_id : i \in 1..Len(cs)}
ChunksOfUrl(cs, u) == {cs[i] : i \in {j \in 1..Len(cs) : cs[j].url = u}}

\* ------------------------------------------------------------------ files
NoMetadata == [exists |-> FALSE, current_version |-> FALSE, recent |-> FALSE,
               embedding_model |-> "", num_chunks |-> 0, contextual_retrieval |-> FALSE]
NoCrawlState == [discovered_urls |-> <<>>, indexed_urls |-> {},
                 failed_urls |-> [u \in URLS |-> 0], crawl_complete |-> FALSE,
                 max_pages_limit |-> 0]
NoPage == [exists |-> FALSE, html |-> <<>>, lastmod |-> NoLastmod, expired |-> FALSE]
NoFaiss == [exists |-> FALSE, docs |-> <<>>, checksum |-> "none"]
\* `deserialized`: the state of the checksum file the vector store was read
\* under by FAISS.load_local, "no" for a store that was embedded from chunks.
NoVectorstore == [built |-> FALSE, docs |-> <<>>, deserialized |-> "no"]
NoChunksFile == [exists |-> FALSE, data |-> <<>>]
NoParentsFile == [exists |-> FALSE, data |-> {}]
\* What search has returned: nothing yet.
NoSearch == [called |-> FALSE, raised |-> FALSE, results |-> <<>>,
             top_k |-> 0, return_parent |-> FALSE,
             scores |-> <<>>, rerank_enabled |-> FALSE]
NoRun == [force_rebuild |-> FALSE, force_refresh |-> FALSE,
          is_resuming |-> FALSE, is_expanding |-> FALSE, is_refreshing |-> FALSE,
          indexed_urls_set |-> {}, failed_urls |-> [u \in URLS |-> 0],
          url_list |-> <<>>, pending |-> {}, new_pages |-> <<>>,
          refreshed_urls |-> {}, fetch_failed |-> {}, strategy |-> "none",
          pre_chunks |-> <<>>, pre_parents |-> {}, pre_indexed |-> {},
          pre_faiss |-> NoFaiss, pre_metadata |-> NoMetadata,
          search |-> NoSearch, op |-> "none"]

NoKill == [phase |-> "none", force_rebuild |-> FALSE, force_refresh |-> FALSE,
           expect |-> {}]

\* The DocumentCrawler before it is used.
NoCrawler == [robots_loaded |-> FALSE, disallowed |-> {}, max_pages |-> 0,
              manual_urls |-> <<>>, manual_urls_only |-> FALSE, has_sitemap |-> FALSE,
              sitemap |-> [sitemaps |-> <<>>, urls |-> <<>>], links |-> <<>>]
NoCrawl == [pc |-> "none", manual |-> <<>>, urls |-> <<>>, visited |-> {},
            queued |-> {}, to_visit |-> <<>>, result |-> <<>>, requests |-> {},
            workers |-> <<>>, cached |-> {}, pages |-> <<>>, sitemap_urls |-> <<>>,
            failed_urls |-> <<>>, failed_before |-> <<>>,
            saved_failed_urls |-> <<>>]
\* No RAGConfig under construction.
NoConfig == [hybrid_bm25_weight |-> 0, hybrid_semantic_weight |-> 0, rounding |-> 0,
             outcome |-> "none"]
\* No prompt file, and an LLMServer that has not read one.
NoPromptFile == [exists |-> FALSE, content |-> 0, mtime |-> 0]
NoPromptCache == [system_prompt_cache |-> 0, system_prompt_mtime |-> 0]
CrawlerIdle == crawler = NoCrawler /\ crawl = NoCrawl
ConfigIdle == rag_config = NoConfig
ServerIdle ==
    /\ prompt_file = NoPromptFile /\ fs_clock = 0
    /\ server = NoPromptCache /\ callers = <<>>
\* No background task, no searching thread, no chat request.
NoBackground == [ensemble_retriever |-> <<>>, task |-> "none", next |-> 0,
                 searcher |-> [pc |-> "none"]]
NoChat ==
    [pc |-> "none", variant |-> "none", backend_type |-> "none",
     max_iterations |-> 0, iteration |-> 0, backend_calls |-> 0,
     tool_messages |-> 0, finish_reason |-> "none", raised |-> "none",
     events |-> <<>>]
ServiceIdle == background = NoBackground /\ chat = NoChat
OtherIdle == CrawlerIdle /\ ConfigIdle /\ ServerIdle /\ ServiceIdle

\* An empty cache directory and a new DocSearchIndex.
IndexEmpty ==
    /\ config_embedding_model = "m1"
    /\ metadata_file = NoMetadata
    /\ chunks_file = NoChunksFile
    /\ parent_chunks_file = NoParentsFile
    /\ crawl_state_file = NoCrawlState
    /\ page_cache = [u \in URLS |-> NoPage]
    /\ faiss_index = NoFaiss
    /\ chunks = <<>>
    /\ parent_chunks = {}
    /\ child_to_parent = {}
    /\ vectorstore = NoVectorstore
    /\ bm25_retriever = <<>>
    /\ pc = "idle"
    /\ run = NoRun
    /\ result = "none"
    /\ prev_kill = NoKill
    /\ calls = 0
    /\ kills = 0

Init ==
    /\ site_lastmod \in [URLS -> Lastmods]
    /\ config_max_pages \in URLS
    /\ IndexEmpty
    /\ OtherIdle

\* ------------------------------------------------------------------ crawler
\* The sitemap in document order.
DocOrder == [i \in 1..NumUrls |-> i]

\* _parse_sitemap_xml: urls.sort(key=lastmod or "", reverse=True), a stable sort
\* that puts the newest lastmod first.
RECURSIVE SortByLastmod(_)
SortByLastmod(v) ==
    IF v = 0 THEN <<>>
    ELSE SelectSeq(DocOrder, LAMBDA u : site_lastmod[u] = v) \o SortByLastmod(v - 1)

\* discover_and_crawl: the sitemap's URL records, cut to max_pages.
discover_and_crawl ==
    LET sorted == SortByLastmod(MaxVer)
        n == IF Len(sorted) > config_max_pages THEN config_max_pages ELSE Len(sorted)
    IN [i \in 1..n |-> [url |-> sorted[i], lastmod |-> site_lastmod[sorted[i]]]]

\* An update check that does not look at max_pages.
needs_update_without_expansion ==
    \/ ~metadata_file.exists
    \/ ~metadata_file.current_version
    \/ /\ metadata_file.embedding_model /= ""
       /\ metadata_file.embedding_model /= config_embedding_model
    \/ ~metadata_file.recent

\* ------------------------------------------------------------------ needs_update
needs_update ==
    \/ ~metadata_file.exists
    \/ ~metadata_file.current_version
    \/ /\ metadata_file.embedding_model /= ""
       /\ metadata_file.embedding_model /= config_embedding_model
    \/ /\ crawl_state_file.max_pages_limit /= 0
       /\ config_max_pages > crawl_state_file.max_pages_limit
    \/ ~metadata_file.recent

\* ------------------------------------------------------------------ page cache
\* A cache lookup that does not compare the lastmod.
CacheHitIgnoringLastmod(url, lastmod, force_refresh) ==
    /\ ~force_refresh
    /\ page_cache[url].exists
    /\ ~(lastmod = NoLastmod /\ page_cache[url].expired)

\* _load_cached_page returns the cached page (page_cache_ttl_hours > 0).
CacheHit(url, lastmod, force_refresh) ==
    /\ ~force_refresh
    /\ page_cache[url].exists
    /\ ~(lastmod /= NoLastmod /\ page_cache[url].lastmod /= lastmod)
    /\ ~(lastmod = NoLastmod /\ page_cache[url].expired)

\* _fetch_page_with_cache: the page it returns; `exists` is FALSE for None.
\* `fetched`: crawler.fetch_page returns the page (robots.txt allows it, the
\* server answers with HTML from under the base URL).
FetchPageWithCache(info, force_refresh, fetched) ==
    IF CacheHit(info.url, info.lastmod, force_refresh)
    THEN [exists |-> TRUE, url |-> info.url, html |-> page_cache[info.url].html,
          lastmod |-> page_cache[info.url].lastmod, from_cache |-> TRUE]
    ELSE [exists |-> fetched, url |-> info.url, html |-> SiteHtml(info.url),
          lastmod |-> info.lastmod, from_cache |-> FALSE]

\* _save_cached_page, called for a page fetched from the network.
SaveCachedPage(cache, page) ==
    IF page.exists /\ ~page.from_cache
    THEN [cache EXCEPT ![page.url] = [exists |-> TRUE, html |-> page.html,
                                      lastmod |-> page.lastmod, expired |-> FALSE]]
    ELSE cache

\* _fetch_pages, one completed future: success clears the failure record,
\* failure goes through _track_url_failure.
TrackFetchResult(failed, url, ok) ==
    [failed EXCEPT ![url] = IF ok THEN 0 ELSE @ + 1]

\* ------------------------------------------------------------------ chunking
\* semantic_chunk_html: one parent per page; a page particular to its URL has
\* one child under it, the shared page is too small for a child.  chunk_id is a
\* function of (url, position, content).
semantic_chunk_html(url, html) ==
    LET p == <<url, 0, html>>
        c == <<url, 1, html>>
    IN IF html[1] = 0
       THEN [parents |-> <<[chunk_id |-> p]>>, children |-> <<>>]
       ELSE [parents |-> <<[chunk_id |-> p]>>,
             children |-> <<[chunk_id |-> c, parent_id |-> p]>>]

Document(id, parent_id, page, as_child) ==
    [chunk_id |-> id, parent_id |-> parent_id, url |-> page.url,
     is_parent_as_child |-> as_child, contextualized |-> FALSE]

ParentRecord(id, page) == [chunk_id |-> id, url |-> page.url]

\* self.parent_chunks[chunk_id] = ...
DictPut(d, rec) == {r \in d : r.chunk_id /= rec.chunk_id} \cup {rec}

ChildToParentOf(cs) ==
    {<<cs[i].chunk_id, cs[i].parent_id>> :
        i \in {j \in 1..Len(cs) : cs[j].parent_id /= NoParent}}

\* _create_chunks, lines 1133-1146: the first page of every content hash.
RECURSIVE DeduplicatePages(_, _)
DeduplicatePages(pages, seen) ==
    IF pages = <<>> THEN <<>>
    ELSE LET p == Head(pages) IN
         IF p.html \in seen THEN DeduplicatePages(Tail(pages), seen)
         ELSE <<p>> \o DeduplicatePages(Tail(pages), seen \cup {p.html})

\* _create_chunks, the body of the loop over the deduplicated pages.
ChunkPage(st, page) ==
    LET res == semantic_chunk_html(page.url, page.html)
        with_children == {res.children[i].parent_id : i \in 1..Len(res.children)}
        par == res.parents[1]
        as_child == IF par.chunk_id \in with_children THEN <<>>
                    ELSE <<Document(par.chunk_id, NoParent, page, TRUE)>>
        kids == [i \in 1..Len(res.children) |->
                    Document(res.children[i].chunk_id, res.children[i].parent_id, page, FALSE)]
    IN [chunks |-> st.chunks \o as_child \o kids,
        parent_chunks |-> DictPut(st.parent_chunks, ParentRecord(par.chunk_id, page)),
        child_to_parent |-> st.child_to_parent \cup ChildToParentOf(kids)]

RECURSIVE ChunkPages(_, _)
ChunkPages(st, pages) ==
    IF pages = <<>> THEN st ELSE ChunkPages(ChunkPage(st, Head(pages)), Tail(pages))

create_chunks(st, pages) == ChunkPages(st, DeduplicatePages(pages, {}))

\* A purge that drops nothing.
KeepAllChunks(cs, refreshed_urls) == cs

\* A purge that drops every chunk.
PurgeEveryChunk(cs, refreshed_urls) == <<>>

\* crawl_and_index, lines 359-363: drop what the refreshed URLs had.
PurgeChunks(cs, refreshed_urls) == SelectSeq(cs, LAMBDA c : c.url \notin refreshed_urls)
PurgeParents(ps, refreshed_urls) == {p \in ps : p.url \notin refreshed_urls}

\* ------------------------------------------------------------------ index
\* An index build that stops after its first chunk.
build_faiss_first_only(cs) ==
    [built |-> TRUE, docs |-> SubSeq(cs, 1, 1), deserialized |-> "no"]

\* _build_faiss_with_progress: a vector for every chunk.
build_faiss(cs) == [built |-> TRUE, docs |-> cs, deserialized |-> "no"]

\* vectorstore.save_local: the index files are replaced, the checksum file is
\* not yet; an existing checksum file no longer matches.
SaveLocal(docs) ==
    [exists |-> TRUE, docs |-> docs,
     checksum |-> IF faiss_index.exists /\ faiss_index.checksum /= "none" THEN "bad" ELSE "none"]

\* save_local followed by _save_faiss_checksum.
SaveLocalWithChecksum(docs) == [exists |-> TRUE, docs |-> docs, checksum |-> "ok"]

\* A load that does not look at the checksum file.
FaissLoadableUnverified == faiss_index.exists

\* _verify_faiss_checksum passes and FAISS.load_local succeeds.
FaissLoadable == faiss_index.exists /\ faiss_index.checksum /= "bad"

\* ------------------------------------------------------------------ operations
SavedMetadata(n, ctx) ==
    [exists |-> TRUE, current_version |-> TRUE, recent |-> TRUE,
     embedding_model |-> config_embedding_model, num_chunks |-> n,
     contextual_retrieval |-> ctx]

\* What a call records when it starts: the operation and the stores before it.
Started(op) ==
    [NoRun EXCEPT !.op = op, !.pre_chunks = chunks_file.data,
                  !.pre_parents = parent_chunks_file.data,
                  !.pre_indexed = crawl_state_file.indexed_urls,
                  !.pre_faiss = faiss_index,
                  !.pre_metadata = metadata_file]

\* load_index (RAGConfig has no contextual retrieval switched on, so no
\* background task is started).
load_index ==
    LET cs == chunks_file.data IN
    /\ chunks' = cs
    /\ parent_chunks' = parent_chunks_file.data
    /\ child_to_parent' = ChildToParentOf(cs)
    /\ IF cs = <<>>
       THEN UNCHANGED <<vectorstore, bm25_retriever, faiss_index>>
       ELSE /\ vectorstore' = IF FaissLoadable
                              THEN [built |-> TRUE, docs |-> faiss_index.docs,
                                    deserialized |-> faiss_index.checksum]
                              ELSE build_faiss(cs)
            /\ faiss_index' = IF FaissLoadable THEN faiss_index
                              ELSE SaveLocalWithChecksum(cs)
            /\ bm25_retriever' = cs

\* rebuild_embeddings; `raised` tells whether it ends in ValueError (no chunks
\* file, or an empty one) or TypeError (len of a missing parent store).
rebuild_embeddings_raises ==
    \/ ~chunks_file.exists
    \/ ~parent_chunks_file.exists
    \/ chunks_file.data = <<>>

rebuild_embeddings ==
    IF ~chunks_file.exists
    THEN UNCHANGED <<mem_vars, faiss_index, metadata_file>>
    ELSE /\ chunks' = chunks_file.data
         /\ parent_chunks' = parent_chunks_file.data
         /\ UNCHANGED child_to_parent
         /\ IF rebuild_embeddings_raises
            THEN UNCHANGED <<vectorstore, bm25_retriever, faiss_index, metadata_file>>
            ELSE /\ vectorstore' = build_faiss(chunks')
                 /\ faiss_index' = SaveLocalWithChecksum(chunks')
                 /\ bm25_retriever' = chunks'
                 /\ metadata_file' = SavedMetadata(Len(chunks'), FALSE)

\* ---- calls other than the crawl pipeline, each one step
LoadIndex ==
    /\ pc = "idle"
    /\ calls < MaxCalls /\ calls' = calls + 1 /\ UNCHANGED <<kills, other_vars>>
    /\ load_index
    /\ pc' = "done" /\ result' = "ok" /\ run' = Started("load_index")
    /\ UNCHANGED <<env_vars, metadata_file, chunks_file, parent_chunks_file,
                   crawl_state_file, page_cache, prev_kill>>

RebuildEmbeddings ==
    /\ pc = "idle"
    /\ calls < MaxCalls /\ calls' = calls + 1 /\ UNCHANGED <<kills, other_vars>>
    /\ rebuild_embeddings
    /\ pc' = "done" /\ run' = Started("rebuild_embeddings")
    /\ result' = IF rebuild_embeddings_raises THEN "raised" ELSE "ok"
    /\ UNCHANGED <<env_vars, chunks_file, parent_chunks_file,
                   crawl_state_file, page_cache, prev_kill>>

\* contextualize_chunks: every chunk whose page text is known gets its prefix.
Contextualize(cs, urls) ==
    [i \in 1..Len(cs) |->
        IF cs[i].url \in urls THEN [cs[i] EXCEPT !.contextualized = TRUE] ELSE cs[i]]

CachedUrls == {u \in URLS : page_cache[u].exists}

AddContextualRetrieval ==
    /\ pc = "idle"
    /\ calls < MaxCalls /\ calls' = calls + 1 /\ UNCHANGED <<kills, other_vars>>
    /\ LET loaded == chunks = <<>>
           cs == IF loaded THEN chunks_file.data ELSE chunks
           ps == IF loaded THEN parent_chunks_file.data ELSE parent_chunks
           raises == cs = <<>> \/ CachedUrls = {}
           ctx == Contextualize(cs, CachedUrls)
       IN /\ parent_chunks' = ps
          /\ UNCHANGED child_to_parent
          /\ result' = IF raises THEN "raised" ELSE "ok"
          /\ IF raises
             THEN /\ chunks' = cs
                  /\ UNCHANGED <<vectorstore, bm25_retriever, faiss_index,
                                 metadata_file, chunks_file>>
             ELSE /\ chunks' = ctx
                  /\ chunks_file' = [exists |-> TRUE, data |-> ctx]
                  /\ vectorstore' = build_faiss(ctx)
                  /\ faiss_index' = SaveLocalWithChecksum(ctx)
                  /\ bm25_retriever' = ctx
                  /\ metadata_file' = SavedMetadata(Len(ctx), TRUE)
    /\ pc' = "done" /\ run' = Started("add_contextual_retrieval")
    /\ UNCHANGED <<env_vars, parent_chunks_file, crawl_state_file, page_cache, prev_kill>>

\* ---- crawl_and_index
\* lines 183-186: nothing to do, the index is loaded.
CrawlUpToDate ==
    /\ pc = "idle"
    /\ calls < MaxCalls /\ calls' = calls + 1 /\ UNCHANGED <<kills, other_vars>>
    /\ ~needs_update
    /\ load_index
    /\ pc' = "done" /\ result' = "ok" /\ run' = Started("up_to_date")
    /\ UNCHANGED <<env_vars, metadata_file, chunks_file, parent_chunks_file,
                   crawl_state_file, page_cache, prev_kill>>

embedding_model_changed(force_rebuild, force_refresh) ==
    /\ metadata_file.embedding_model /= ""
    /\ metadata_file.embedding_model /= config_embedding_model
    /\ chunks_file.exists
    /\ ~force_rebuild
    /\ ~force_refresh

\* lines 188-206: only the embedding model changed.
CrawlEmbeddingOnly ==
    /\ pc = "idle"
    /\ calls < MaxCalls /\ calls' = calls + 1 /\ UNCHANGED <<kills, other_vars>>
    /\ needs_update
    /\ embedding_model_changed(FALSE, FALSE)
    /\ rebuild_embeddings
    /\ pc' = "done" /\ run' = Started("embedding_only")
    /\ result' = IF rebuild_embeddings_raises THEN "raised" ELSE "ok"
    /\ UNCHANGED <<env_vars, chunks_file, parent_chunks_file,
                   crawl_state_file, page_cache, prev_kill>>

\* lines 212-245: the pipeline starts.
CrawlBegin(force_rebuild, force_refresh) ==
    /\ pc = "idle"
    /\ calls < MaxCalls /\ calls' = calls + 1 /\ UNCHANGED <<kills, other_vars>>
    /\ force_rebuild \/ force_refresh \/ needs_update
    /\ ~embedding_model_changed(force_rebuild, force_refresh)
    /\ LET is_resuming == crawl_state_file.indexed_urls /= {} /\ ~force_rebuild
           is_expanding == /\ crawl_state_file.max_pages_limit /= 0
                           /\ config_max_pages > crawl_state_file.max_pages_limit
           is_refreshing == force_refresh \/ (is_resuming /\ needs_update)
       IN run' = [Started("crawl") EXCEPT
                    !.force_rebuild = force_rebuild,
                    !.force_refresh = force_refresh,
                    !.is_resuming = is_resuming,
                    !.is_expanding = is_expanding,
                    !.is_refreshing = is_refreshing,
                    !.indexed_urls_set = IF force_rebuild THEN {}
                                         ELSE crawl_state_file.indexed_urls,
                    !.failed_urls = IF force_rebuild THEN [u \in URLS |-> 0]
                                    ELSE crawl_state_file.failed_urls]
    /\ pc' = "discover"
    /\ UNCHANGED <<env_vars, disk_vars, mem_vars, result, prev_kill>>

\* The URLs to fetch without the filter on the failure count.
UrlsToFetchUnfiltered(url_list) ==
    IF run.is_refreshing THEN url_list
    ELSE SelectSeq(url_list, LAMBDA i : i.url \notin run.indexed_urls_set)

\* lines 279-301: the URLs submitted to the fetch phase.
UrlsToFetch(url_list) ==
    LET wanted == IF run.is_refreshing THEN url_list
                  ELSE SelectSeq(url_list, LAMBDA i : i.url \notin run.indexed_urls_set)
    IN SelectSeq(wanted, LAMBDA i : ~(run.failed_urls[i.url] >= max_url_retries))

\* A discovery that is saved whatever it found.
SaveDiscoveredAlways(found) ==
    [crawl_state_file EXCEPT
        !.discovered_urls = [i \in 1..Len(found) |-> found[i].url],
        !.crawl_complete = TRUE,
        !.max_pages_limit = config_max_pages]

\* lines 254-270: the discovery is saved only if it found a URL.
SaveDiscovered(found) ==
    IF found /= <<>>
    THEN [crawl_state_file EXCEPT
            !.discovered_urls = [i \in 1..Len(found) |-> found[i].url],
            !.crawl_complete = TRUE,
            !.max_pages_limit = config_max_pages]
    ELSE crawl_state_file

\* lines 247-311: phase 1.  `outage`: discovery finds no URL at all.
Discover(outage) ==
    /\ UNCHANGED <<calls, kills, other_vars>>
    /\ pc = "discover"
    /\ LET rediscover == \/ run.force_rebuild
                         \/ ~crawl_state_file.crawl_complete
                         \/ run.is_expanding
           found == IF outage THEN <<>> ELSE discover_and_crawl
           cached == [i \in 1..Len(crawl_state_file.discovered_urls) |->
                        [url |-> crawl_state_file.discovered_urls[i], lastmod |-> NoLastmod]]
           url_list == IF rediscover THEN found ELSE cached
           urls_to_fetch == UrlsToFetch(url_list)
       IN /\ outage => rediscover
          /\ crawl_state_file' = IF rediscover THEN SaveDiscovered(found)
                                  ELSE crawl_state_file
          /\ IF url_list = <<>>
             THEN /\ pc' = "done" /\ result' = "ok" /\ run' = run
                  /\ UNCHANGED <<mem_vars, faiss_index>>
             ELSE IF urls_to_fetch = <<>>
             THEN /\ load_index
                  /\ pc' = "done" /\ result' = "ok"
                  /\ run' = [run EXCEPT !.url_list = url_list]
             ELSE /\ pc' = "fetch" /\ UNCHANGED result
                  /\ run' = [run EXCEPT !.url_list = url_list,
                                        !.pending = Range(urls_to_fetch)]
                  /\ UNCHANGED <<mem_vars, faiss_index>>
    /\ UNCHANGED <<env_vars, metadata_file, chunks_file, parent_chunks_file,
                   page_cache, prev_kill>>

\* _fetch_pages: one worker's page comes back (in any order).
FetchOne(info, fetched) ==
    /\ UNCHANGED <<calls, kills, other_vars>>
    /\ pc = "fetch"
    /\ info \in run.pending
    /\ CacheHit(info.url, info.lastmod, run.force_refresh) => fetched
    /\ LET page == FetchPageWithCache(info, run.force_refresh, fetched) IN
       /\ page_cache' = SaveCachedPage(page_cache, page)
       /\ run' = [run EXCEPT
                    !.pending = @ \ {info},
                    !.new_pages = IF page.exists THEN Append(@, page) ELSE @,
                    !.fetch_failed = IF page.exists THEN @ ELSE @ \cup {info.url},
                    !.failed_urls = TrackFetchResult(@, info.url, page.exists)]
    /\ UNCHANGED <<env_vars, metadata_file, chunks_file, parent_chunks_file,
                   crawl_state_file, faiss_index, mem_vars, pc, result, prev_kill>>

\* lines 319-328: the failure records are saved; without a page the run ends.
FetchDone ==
    /\ UNCHANGED <<calls, kills, other_vars>>
    /\ pc = "fetch"
    /\ run.pending = {}
    /\ crawl_state_file' = [crawl_state_file EXCEPT !.failed_urls = run.failed_urls]
    /\ IF run.new_pages = <<>>
       THEN /\ IF run.indexed_urls_set /= {} THEN load_index
               ELSE UNCHANGED <<mem_vars, faiss_index>>
            /\ pc' = "done" /\ result' = "ok"
       ELSE /\ pc' = "chunk" /\ UNCHANGED <<mem_vars, faiss_index, result>>
    /\ UNCHANGED <<env_vars, metadata_file, chunks_file, parent_chunks_file,
                   page_cache, run, prev_kill>>

\* lines 334-429: phase 3, up to and including _save_chunks.
ChunkAndSave ==
    /\ UNCHANGED <<calls, kills, other_vars>>
    /\ pc = "chunk"
    /\ LET refreshed_urls == {p.url : p \in {q \in Range(run.new_pages) : ~q.from_cache}}
           pages_to_chunk == SelectSeq(run.new_pages, LAMBDA p : ~p.from_cache)
           keep == run.is_resuming \/ run.is_expanding \/ run.is_refreshing
           existing_chunks == IF keep THEN PurgeChunks(chunks_file.data, refreshed_urls)
                              ELSE <<>>
           existing_parent_chunks ==
               IF keep THEN PurgeParents(parent_chunks_file.data, refreshed_urls) ELSE {}
           st == create_chunks([chunks |-> existing_chunks,
                                parent_chunks |-> existing_parent_chunks,
                                child_to_parent |-> ChildToParentOf(existing_chunks)],
                               pages_to_chunk)
       IN /\ chunks' = st.chunks
          /\ parent_chunks' = st.parent_chunks
          /\ child_to_parent' = st.child_to_parent
          /\ chunks_file' = [exists |-> TRUE, data |-> st.chunks]
          /\ run' = [run EXCEPT !.refreshed_urls = refreshed_urls]
    /\ pc' = "save_parents"
    /\ UNCHANGED <<env_vars, metadata_file, parent_chunks_file, crawl_state_file,
                   page_cache, faiss_index, vectorstore, bm25_retriever, result, prev_kill>>

\* line 430: _save_parent_chunks.
SaveParentChunks ==
    /\ UNCHANGED <<calls, kills, other_vars>>
    /\ pc = "save_parents"
    /\ parent_chunks_file' = [exists |-> TRUE, data |-> parent_chunks]
    /\ pc' = "save_indexed"
    /\ UNCHANGED <<env_vars, metadata_file, chunks_file, crawl_state_file, page_cache,
                   faiss_index, mem_vars, run, result, prev_kill>>

\* lines 432-436: every page of the fetch phase counts as indexed.
NewlyIndexed(new_pages) == {new_pages[i].url : i \in 1..Len(new_pages)}

SaveIndexedUrls ==
    /\ UNCHANGED <<calls, kills, other_vars>>
    /\ pc = "save_indexed"
    /\ LET all == run.indexed_urls_set \cup NewlyIndexed(run.new_pages) IN
       /\ crawl_state_file' = [crawl_state_file EXCEPT !.indexed_urls = all]
       /\ run' = [run EXCEPT !.indexed_urls_set = all]
    /\ pc' = "index"
    /\ UNCHANGED <<env_vars, metadata_file, chunks_file, parent_chunks_file, page_cache,
                   faiss_index, mem_vars, result, prev_kill>>

\* lines 443-458 with _build_index and _update_index_incremental: which way
\* the vector index is brought up to date.
\*   "none"        _build_index without chunks: nothing is built
\*   "raise"       _build_retrievers without chunks: ValueError
\*   "incremental" the saved index is loaded and the new chunks are added
\*   "full"        every chunk is embedded again
IndexStrategy ==
    LET existing_chunk_count == metadata_file.num_chunks
        new_chunk_count == Len(chunks) - existing_chunk_count
        build_index == IF chunks = <<>> THEN "none" ELSE "full"
    IN IF run.refreshed_urls /= {} THEN build_index
       ELSE IF run.is_resuming \/ run.is_expanding
       THEN IF existing_chunk_count = 0 THEN build_index
            ELSE IF new_chunk_count <= 0
            THEN (IF chunks = <<>> THEN "raise" ELSE "full")
            ELSE IF FaissLoadable THEN "incremental" ELSE "full"
       ELSE build_index

\* _update_index_incremental, lines 1479-1485: the loaded index plus the chunks
\* after the first num_chunks.
AddNewChunks(docs, cs, existing_chunk_count) ==
    [built |-> TRUE, docs |-> docs \o SubSeq(cs, existing_chunk_count + 1, Len(cs)),
     deserialized |-> faiss_index.checksum]

\* Phase 4 up to vectorstore.save_local.
BuildIndex ==
    /\ UNCHANGED <<calls, kills, other_vars>>
    /\ pc = "index"
    /\ LET how == IndexStrategy IN
       /\ run' = [run EXCEPT !.strategy = how]
       /\ IF how = "none"
          THEN /\ pc' = "metadata"
               /\ UNCHANGED <<vectorstore, faiss_index, result>>
          ELSE IF how = "raise"
          THEN /\ pc' = "done" /\ result' = "raised"
               /\ UNCHANGED <<vectorstore, faiss_index>>
          ELSE /\ vectorstore' = IF how = "incremental"
                                 THEN AddNewChunks(faiss_index.docs, chunks,
                                                   metadata_file.num_chunks)
                                 ELSE build_faiss(chunks)
               /\ faiss_index' = SaveLocal(vectorstore'.docs)
               /\ pc' = "checksum"
               /\ UNCHANGED result
    /\ UNCHANGED <<env_vars, metadata_file, chunks_file, parent_chunks_file,
                   crawl_state_file, page_cache, chunks, parent_chunks,
                   child_to_parent, bm25_retriever, prev_kill>>

\* _save_faiss_checksum, then the BM25 and ensemble retrievers.
SaveChecksum ==
    /\ UNCHANGED <<calls, kills, other_vars>>
    /\ pc = "checksum"
    /\ faiss_index' = [faiss_index EXCEPT !.checksum = "ok"]
    /\ bm25_retriever' = chunks
    /\ pc' = "metadata"
    /\ UNCHANGED <<env_vars, metadata_file, chunks_file, parent_chunks_file,
                   crawl_state_file, page_cache, chunks, parent_chunks,
                   child_to_parent, vectorstore, run, result, prev_kill>>

\* lines 462-470.
SaveMetadata ==
    /\ UNCHANGED <<calls, kills, other_vars>>
    /\ pc = "metadata"
    /\ metadata_file' = SavedMetadata(Len(chunks), FALSE)
    /\ pc' = "done" /\ result' = "ok"
    /\ UNCHANGED <<env_vars, chunks_file, parent_chunks_file, crawl_state_file,
                   page_cache, faiss_index, mem_vars, run, prev_kill>>

\* ------------------------------------------------------------------ search
\* A query is known by the URLs whose chunks the retrievers rank for it.
Queries == SUBSET URLS
TopKs == 0..MaxTopK
\* The order the cross-encoder's scores put the results in.
RerankOrders == {"keep", "reverse"}
\* A result without the parent_text key.
NoParentText == <<>>

\* self.ensemble_retriever: set wherever self.bm25_retriever is set.
ensemble_retriever == bm25_retriever /= <<>>

\* parent["content"] as _create_chunks stores it: the text of the page.
ParentContent(rec) == rec.chunk_id[3]

Candidates(docs, q) == SelectSeq(docs, LAMBDA d : d.url \in q)

\* ensemble_retriever.invoke: the keyword and the semantic candidates fused,
\* every document once.
ensemble_invoke(q) ==
    LET kw == Candidates(bm25_retriever, q)
        sem == Candidates(vectorstore.docs, q)
    IN kw \o SelectSeq(sem, LAMBDA d : d \notin Range(kw))

\* search, lines 799-816: one result, with its parent if asked for and known.
SearchResult(doc, return_parent) ==
    LET linked == {p \in child_to_parent : p[1] = doc.chunk_id}
        stored == {r \in parent_chunks : \E p \in linked : r.chunk_id = p[2]}
    IN [chunk_id |-> doc.chunk_id, parent_id |-> doc.parent_id, url |-> doc.url,
        parent_text |-> IF return_parent /\ stored /= {}
                        THEN ParentContent(CHOOSE r \in stored : TRUE)
                        ELSE NoParentText]

RECURSIVE Reverse(_)
Reverse(s) == IF s = <<>> THEN <<>> ELSE Reverse(Tail(s)) \o <<Head(s)>>

\* _rerank_results: sorted by the cross-encoder's scores.
rerank_results(results, order) == IF order = "reverse" THEN Reverse(results) ELSE results

FirstK(s, k) == SubSeq(s, 1, IF k < Len(s) THEN k ELSE Len(s))

\* A search that goes to the retriever without looking whether there is one.
search_unguarded(q, top_k, return_parent, order) ==
    LET candidates == ensemble_invoke(q)
        results == [i \in 1..Len(candidates) |-> SearchResult(candidates[i], return_parent)]
    IN [called |-> TRUE, raised |-> ~ensemble_retriever,
        results |-> IF ensemble_retriever
                    THEN FirstK(rerank_results(results, order), top_k) ELSE <<>>,
        top_k |-> top_k, return_parent |-> return_parent]

\* search
search(q, top_k, return_parent, order) ==
    LET candidates == ensemble_invoke(q)
        results == [i \in 1..Len(candidates) |-> SearchResult(candidates[i], return_parent)]
    IN [called |-> TRUE, raised |-> FALSE,
        results |-> IF ~ensemble_retriever THEN <<>>
                    ELSE FirstK(rerank_results(results, order), top_k),
        top_k |-> top_k, return_parent |-> return_parent]

Search(q, top_k, return_parent, order) ==
    /\ pc = "idle"
    /\ pc' = "done"
    /\ run' = [Started("search") EXCEPT !.search = search(q, top_k, return_parent, order)]
    /\ result' = IF run'.search.raised THEN "raised" ELSE "ok"
    /\ UNCHANGED <<env_vars, disk_vars, mem_vars, prev_kill, calls, kills, other_vars>>

\* ---- the process
ClearedMemory ==
    /\ chunks' = <<>> /\ parent_chunks' = {} /\ child_to_parent' = {}
    /\ vectorstore' = NoVectorstore /\ bm25_retriever' = <<>>

\* The call has returned (or raised); the instance stays for the next call.
Return ==
    /\ UNCHANGED <<calls, kills, other_vars>>
    /\ pc = "done"
    /\ pc' = "idle" /\ run' = NoRun /\ prev_kill' = NoKill /\ result' = "none"
    /\ UNCHANGED <<env_vars, disk_vars, mem_vars>>

\* The call has returned (or raised) and its process ends.
Exit ==
    /\ UNCHANGED <<calls, kills, other_vars>>
    /\ pc = "done"
    /\ pc' = "idle" /\ run' = NoRun /\ prev_kill' = NoKill /\ result' = "none"
    /\ ClearedMemory
    /\ UNCHANGED <<env_vars, disk_vars>>

\* What crawl_and_index would at least leave in indexed_urls if the fetch phase
\* ran to its end from here (lines 432-436): the pages already fetched count
\* as indexed, whatever the pending fetches bring.
FetchPhaseOutcome == run.indexed_urls_set \cup NewlyIndexed(run.new_pages)

KillPhase ==
    IF pc = "fetch" THEN "fetch"
    ELSE IF pc \in {"save_parents", "save_indexed", "index"} THEN "chunks_saved"
    ELSE "other"

\* The process is killed in the middle of crawl_and_index; the next call runs
\* in a new process.
Kill ==
    /\ kills < MaxKills /\ kills' = kills + 1 /\ UNCHANGED <<calls, other_vars>>
    /\ pc \in {"discover", "fetch", "chunk", "save_parents", "save_indexed",
               "index", "checksum", "metadata"}
    /\ prev_kill' = [phase |-> KillPhase, force_rebuild |-> run.force_rebuild,
                     force_refresh |-> run.force_refresh,
                     expect |-> IF pc = "fetch" /\ run.new_pages /= <<>>
                                THEN FetchPhaseOutcome ELSE {}]
    /\ pc' = "idle" /\ run' = NoRun /\ result' = "none"
    /\ ClearedMemory
    /\ UNCHANGED <<env_vars, disk_vars>>

\* A new process (a new DocSearchIndex) takes over between two calls.
Restart ==
    /\ UNCHANGED <<calls, kills, other_vars>>
    /\ pc = "idle"
    /\ chunks /= <<>> \/ vectorstore.built
    /\ ClearedMemory
    /\ UNCHANGED <<env_vars, disk_vars, pc, run, result, prev_kill>>

\* ---- the environment, between two calls
\* The page at u is edited: new content and a later lastmod in the sitemap.
SiteChange(u) ==
    /\ UNCHANGED <<calls, kills, other_vars>>
    /\ pc = "idle"
    /\ site_lastmod[u] < MaxVer
    /\ site_lastmod' = [site_lastmod EXCEPT ![u] = @ + 1]
    /\ prev_kill' = NoKill
    /\ UNCHANGED <<config_max_pages, config_embedding_model, disk_vars,
                   mem_vars, pc, run, result>>

\* update_check_interval_hours have passed since metadata.last_update.
IntervalElapses ==
    /\ UNCHANGED <<calls, kills, other_vars>>
    /\ pc = "idle"
    /\ metadata_file.exists /\ metadata_file.recent
    /\ metadata_file' = [metadata_file EXCEPT !.recent = FALSE]
    /\ UNCHANGED <<env_vars, chunks_file, parent_chunks_file, crawl_state_file,
                   page_cache, faiss_index, mem_vars, pc, run, result, prev_kill>>

\* page_cache_ttl_hours have passed since the cached_at of the cache entries.
CacheExpires ==
    /\ UNCHANGED <<calls, kills, other_vars>>
    /\ pc = "idle"
    /\ \E u \in URLS : page_cache[u].exists /\ ~page_cache[u].expired
    /\ page_cache' = [u \in URLS |->
                        IF page_cache[u].exists THEN [page_cache[u] EXCEPT !.expired = TRUE]
                        ELSE page_cache[u]]
    /\ UNCHANGED <<env_vars, metadata_file, chunks_file, parent_chunks_file,
                   crawl_state_file, faiss_index, mem_vars, pc, run, result, prev_kill>>

\* The operator starts a new process with another max_pages.
SetMaxPages(n) ==
    /\ UNCHANGED <<calls, kills, other_vars>>
    /\ pc = "idle"
    /\ n > config_max_pages
    /\ config_max_pages' = n
    /\ ClearedMemory
    /\ prev_kill' = NoKill
    /\ UNCHANGED <<site_lastmod, config_embedding_model, disk_vars,
                   pc, run, result>>

\* The operator starts a new process with another embedding model.
SetEmbeddingModel(m) ==
    /\ UNCHANGED <<calls, kills, other_vars>>
    /\ pc = "idle"
    /\ m /= config_embedding_model
    /\ config_embedding_model' = m
    /\ ClearedMemory
    /\ prev_kill' = NoKill
    /\ UNCHANGED <<site_lastmod, config_max_pages, disk_vars,
                   pc, run, result>>

\* ---- the steps of crawl_and_index after its first
Pipeline ==
    \/ \E outage \in BOOLEAN : Discover(outage)
    \/ \E info \in run.pending, fetched \in BOOLEAN : FetchOne(info, fetched)
    \/ FetchDone
    \/ ChunkAndSave
    \/ SaveParentChunks
    \/ SaveIndexedUrls
    \/ BuildIndex
    \/ SaveChecksum
    \/ SaveMetadata

Crawl ==
    \/ CrawlUpToDate
    \/ \E fr \in BOOLEAN, ff \in BOOLEAN : CrawlBegin(fr, ff)
    \/ Pipeline

Site == \E u \in URLS : SiteChange(u)

Clock ==
    \/ CacheExpires
    \/ IntervalElapses

\* Every call is its own process and may be killed at any point of the crawl.
Next ==
    \/ Crawl
    \/ LoadIndex
    \/ Exit
    \/ Kill
    \/ Site
    \/ Clock
    \/ \E n \in URLS : SetMaxPages(n)
Spec == Init /\ [][Next]_vars

\* One process after the other runs calls to their end; all four public
\* operations and a change of the embedding model.
NextUninterrupted ==
    \/ Crawl
    \/ CrawlEmbeddingOnly
    \/ LoadIndex
    \/ RebuildEmbeddings
    \/ AddContextualRetrieval
    \/ Return
    \/ Restart
    \/ Site
    \/ Clock
    \/ \E n \in URLS : SetMaxPages(n)
    \/ \E m \in Models : SetEmbeddingModel(m)
SpecUninterrupted == Init /\ [][NextUninterrupted]_vars

\* crawl_and_index is called again and again without a flag, by one process,
\* on a site that answers every request and does not change; only the clock
\* moves.
NextUnchangedInputs ==
    \/ CrawlUpToDate
    \/ CrawlBegin(FALSE, FALSE)
    \/ Discover(FALSE)
    \/ \E info \in run.pending : FetchOne(info, TRUE)
    \/ FetchDone
    \/ ChunkAndSave
    \/ SaveParentChunks
    \/ SaveIndexedUrls
    \/ BuildIndex
    \/ SaveChecksum
    \/ SaveMetadata
    \/ Return
    \/ Clock
SpecUnchangedInputs == Init /\ [][NextUnchangedInputs]_vars

\* ---- the scores of a search
\* What cross_encoder.predict gives for one candidate.
Logits == (0 - MaxLogit)..MaxLogit
\* A score is kept as the fraction num / den.
Score(num, den) == [num |-> num, den |-> den]
Min(S) == CHOOSE x \in S : \A y \in S : x <= y
Max(S) == CHOOSE x \in S : \A y \in S : x >= y

\* sorted(results, key=lambda x: x["score"], reverse=True) for scores of one
\* denominator: the results with numerator v, v - 1, ..., 0, each group in the
\* order it had.
RECURSIVE SortByScore(_, _)
SortByScore(results, v) ==
    IF v < 0 THEN <<>>
    ELSE SelectSeq(results, LAMBDA r : r.score.num = v) \o SortByScore(results, v - 1)

\* A re-ranking that keeps the cross-encoder's scores as they are.
rerank_unnormalized(results, scores) ==
    [i \in 1..Len(results) |-> [results[i] EXCEPT !.score = Score(scores[i], 1)]]

\* _rerank_results with a cross-encoder, lines 1540-1559; `scores` is what
\* cross_encoder.predict returns for the results.
rerank_scored(results, scores) ==
    LET min_score == Min(Range(scores))
        max_score == Max(Range(scores))
        score_range == max_score - min_score
        scored == [i \in 1..Len(results) |->
                     [results[i] EXCEPT !.score =
                        IF score_range > 0 THEN Score(scores[i] - min_score, score_range)
                        ELSE Score(1, 1)]]
    IN SortByScore(scored, IF score_range > 0 THEN score_range ELSE 1)

\* search from the conversion of the candidates on, lines 797-824: candidate i
\* of the fused list becomes a result with score 0.0, the results are re-ranked
\* if that is enabled and there are any, and cut to top_k.
search_results(n, scores, top_k, rerank_enabled) ==
    LET results == [i \in 1..n |-> [candidate |-> i, score |-> Score(0, 1)]]
        ranked == IF rerank_enabled /\ results /= <<>>
                  THEN rerank_scored(results, scores) ELSE results
    IN FirstK(ranked, top_k)

\* One search over a loaded index whose retriever returns n candidates.
SearchScored(n, scores, top_k, rerank_enabled) ==
    /\ pc = "idle"
    /\ pc' = "done" /\ result' = "ok"
    /\ run' = [Started("search_scored") EXCEPT
                 !.search = [NoSearch EXCEPT
                     !.called = TRUE, !.top_k = top_k, !.scores = scores,
                     !.rerank_enabled = rerank_enabled,
                     !.results = search_results(n, scores, top_k, rerank_enabled)]]
    /\ UNCHANGED <<env_vars, disk_vars, mem_vars, prev_kill, calls, kills, other_vars>>

NextRerank ==
    \/ \E n \in 0..MaxCandidates, top_k \in TopKs, rerank_enabled \in BOOLEAN :
          \E scores \in [1..n -> Logits] : SearchScored(n, scores, top_k, rerank_enabled)
    \/ Return

SpecRerank == Init /\ [][NextRerank]_vars

\* ---- background contextualization next to a searching thread
\* EnsembleRetriever(retrievers=[self.bm25_retriever, self.vectorstore.as_retriever()]):
\* the object keeps the two retrievers it was built with.
EnsembleRetriever(bm25, store) == [bm25 |-> bm25, vector |-> store.docs]
\* No EnsembleRetriever (None).
NoEnsemble == <<>>

\* The pages of the site as one crawl has fetched them.
FetchedPages ==
    [u \in 1..NumUrls |-> [exists |-> TRUE, url |-> u, html |-> SiteHtml(u),
                            lastmod |-> site_lastmod[u], from_cache |-> FALSE]]

\* A retriever put together from the fields of the index at the time of use.
retriever_from_fields == EnsembleRetriever(bm25_retriever, vectorstore)

\* search, lines 780 and 790: self.ensemble_retriever as the thread reads it.
retriever_read == background.ensemble_retriever

\* ensemble_retriever.invoke on the retriever object the thread holds.
invoke(ens, q) ==
    LET kw == Candidates(ens.bm25, q)
        sem == Candidates(ens.vector, q)
    IN kw \o SelectSeq(sem, LAMBDA d : d \notin Range(kw))

IdleSearcher == [pc |-> "idle", q |-> {}, used |-> NoEnsemble, results |-> <<>>,
                 raised |-> FALSE]

\* The task of start_background_contextualization, add_contextual_retrieval:
\* lines 643-656, the chunks are there; without cached pages it raises and
\* the task ends.
BgStart ==
    /\ background.task = "start"
    /\ background' = [background EXCEPT
                        !.task = IF CachedUrls = {} THEN "failed" ELSE "update_chunks",
                        !.next = 1]
    /\ UNCHANGED <<index_vars, crawler_vars, rag_config, server_vars, chat>>

\* lines 674-683: self.chunks[i] = Document(...), one element at a time.
BgUpdateChunk ==
    /\ background.task = "update_chunks"
    /\ background.next <= Len(chunks)
    /\ chunks' = [chunks EXCEPT ![background.next] =
                     Contextualize(chunks, CachedUrls)[background.next]]
    /\ background' = [background EXCEPT !.next = @ + 1]
    /\ UNCHANGED <<env_vars, disk_vars, parent_chunks, child_to_parent, vectorstore,
                   bm25_retriever, pc, run, result, prev_kill, calls, kills,
                   crawler_vars, rag_config, server_vars, chat>>

\* line 686: _save_chunks.
BgSaveChunks ==
    /\ background.task = "update_chunks"
    /\ background.next > Len(chunks)
    /\ chunks_file' = [exists |-> TRUE, data |-> chunks]
    /\ background' = [background EXCEPT !.task = "build_faiss"]
    /\ UNCHANGED <<env_vars, metadata_file, parent_chunks_file, crawl_state_file,
                   page_cache, faiss_index, mem_vars, pc, run, result, prev_kill,
                   calls, kills, crawler_vars, rag_config, server_vars, chat>>

\* _build_retrievers, lines 1396-1403: the new vector store and save_local.
BgBuildFaiss ==
    /\ background.task = "build_faiss"
    /\ vectorstore' = build_faiss(chunks)
    /\ faiss_index' = SaveLocal(chunks)
    /\ background' = [background EXCEPT !.task = "build_bm25"]
    /\ UNCHANGED <<env_vars, metadata_file, chunks_file, parent_chunks_file,
                   crawl_state_file, page_cache, chunks, parent_chunks, child_to_parent,
                   bm25_retriever, pc, run, result, prev_kill, calls, kills,
                   crawler_vars, rag_config, server_vars, chat>>

\* _build_retrievers, lines 1404-1415: the checksum and the new BM25 retriever.
BgBuildBm25 ==
    /\ background.task = "build_bm25"
    /\ faiss_index' = [faiss_index EXCEPT !.checksum = "ok"]
    /\ bm25_retriever' = chunks
    /\ background' = [background EXCEPT !.task = "build_ensemble"]
    /\ UNCHANGED <<env_vars, metadata_file, chunks_file, parent_chunks_file,
                   crawl_state_file, page_cache, chunks, parent_chunks, child_to_parent,
                   vectorstore, pc, run, result, prev_kill, calls, kills,
                   crawler_vars, rag_config, server_vars, chat>>

\* _build_retrievers, lines 1421-1430: self.ensemble_retriever = EnsembleRetriever(...).
BgSetEnsemble ==
    /\ background.task = "build_ensemble"
    /\ background' = [background EXCEPT
                        !.ensemble_retriever = EnsembleRetriever(bm25_retriever, vectorstore),
                        !.task = "save_metadata"]
    /\ UNCHANGED <<index_vars, crawler_vars, rag_config, server_vars, chat>>

\* add_contextual_retrieval, lines 694-702: the metadata, and the task ends.
BgSaveMetadata ==
    /\ background.task = "save_metadata"
    /\ metadata_file' = SavedMetadata(Len(chunks), TRUE)
    /\ background' = [background EXCEPT !.task = "done"]
    /\ UNCHANGED <<env_vars, chunks_file, parent_chunks_file, crawl_state_file,
                   page_cache, faiss_index, mem_vars, pc, run, result, prev_kill,
                   calls, kills, crawler_vars, rag_config, server_vars, chat>>

BackgroundTask ==
    \/ BgStart
    \/ BgUpdateChunk
    \/ BgSaveChunks
    \/ BgBuildFaiss
    \/ BgBuildBm25
    \/ BgSetEnsemble
    \/ BgSaveMetadata

\* search in another thread, lines 780-782: without a retriever it returns [].
SearcherCheck(q) ==
    /\ background.searcher.pc = "idle"
    /\ background' = [background EXCEPT !.searcher =
          IF retriever_read = NoEnsemble
          THEN [IdleSearcher EXCEPT !.pc = "returned", !.q = q]
          ELSE [IdleSearcher EXCEPT !.pc = "invoke", !.q = q]]
    /\ UNCHANGED <<index_vars, crawler_vars, rag_config, server_vars, chat>>

\* lines 790-824: self.ensemble_retriever is read again and invoked.
SearcherInvoke ==
    /\ background.searcher.pc = "invoke"
    /\ LET ens == retriever_read IN
       background' = [background EXCEPT !.searcher =
          IF ens = NoEnsemble
          THEN [@ EXCEPT !.pc = "returned", !.raised = TRUE]
          ELSE [@ EXCEPT !.pc = "returned", !.used = ens,
                         !.results = invoke(ens, background.searcher.q)]]
    /\ UNCHANGED <<index_vars, crawler_vars, rag_config, server_vars, chat>>

\* The thread is free for its next search.
SearcherNext ==
    /\ background.searcher.pc = "returned"
    /\ background' = [background EXCEPT !.searcher = IdleSearcher]
    /\ UNCHANGED <<index_vars, crawler_vars, rag_config, server_vars, chat>>

\* load_index has loaded an index built by one crawl of the site, of which
\* `cached` are the pages still in the page cache, and has started the
\* background task (lines 566-571).
InitBackground ==
    /\ site_lastmod \in [URLS -> Lastmods]
    /\ config_max_pages = NumUrls
    /\ config_embedding_model = "m1"
    /\ LET st == create_chunks([chunks |-> <<>>, parent_chunks |-> {},
                                child_to_parent |-> {}], FetchedPages)
       IN /\ chunks = st.chunks
          /\ parent_chunks = st.parent_chunks
          /\ child_to_parent = st.child_to_parent
          /\ chunks_file = [exists |-> TRUE, data |-> st.chunks]
          /\ parent_chunks_file = [exists |-> TRUE, data |-> st.parent_chunks]
          /\ metadata_file = SavedMetadata(Len(st.chunks), FALSE)
          /\ faiss_index = SaveLocalWithChecksum(st.chunks)
          /\ vectorstore = [built |-> TRUE, docs |-> st.chunks, deserialized |-> "ok"]
          /\ bm25_retriever = st.chunks
          /\ background = [NoBackground EXCEPT
                !.ensemble_retriever = EnsembleRetriever(st.chunks, [docs |-> st.chunks]),
                !.task = "start", !.searcher = IdleSearcher]
    /\ crawl_state_file = [NoCrawlState EXCEPT
                             !.discovered_urls = [i \in 1..NumUrls |-> i],
                             !.indexed_urls = URLS, !.crawl_complete = TRUE,
                             !.max_pages_limit = NumUrls]
    /\ \E cached \in SUBSET URLS :
          page_cache = [u \in URLS |->
                          IF u \in cached
                          THEN [exists |-> TRUE, html |-> SiteHtml(u),
                                lastmod |-> site_lastmod[u], expired |-> FALSE]
                          ELSE NoPage]
    /\ pc = "idle" /\ run = NoRun /\ result = "none" /\ prev_kill = NoKill
    /\ calls = 0 /\ kills = 0
    /\ CrawlerIdle /\ ConfigIdle /\ ServerIdle /\ chat = NoChat

NextBackground ==
    \/ BackgroundTask
    \/ \E q \in Queries : SearcherCheck(q)
    \/ SearcherInvoke
    \/ SearcherNext

SpecBackground == InitBackground /\ [][NextBackground]_vars

\* ---- the tool-calling loop of one chat request
ChatVariants == {"process_chat_completion", "stream_chat_response"}
BackendTypes == {"ollama", "lmstudio"}

\* What one call of the backend can do: requests.post raises Timeout or
\* ConnectionError, raise_for_status raises HTTPError, response.json()
\* raises on a body that is not JSON, or the response is a message with
\* `tokens` content tokens and, when tool_calls is non-empty, arguments
\* that are a JSON object, a string of JSON or a string that is not JSON.
BackendOutcomes ==
    [kind : {"Timeout", "ConnectionError", "HTTPError", "JSONDecodeError"},
     tokens : {0}, tool_calls : {FALSE}, arguments : {"none"}]
    \cup [kind : {"response"}, tokens : 0..MaxTokens, tool_calls : {FALSE},
          arguments : {"none"}]
    \cup [kind : {"response"}, tokens : {0}, tool_calls : {TRUE},
          arguments : {"object", "json_string", "bad_string"}]

Repeat(e, n) == [i \in 1..n |-> e]

\* The events of the stream for a result: the content chunks, the chunk
\* carrying the finish_reason, and the [DONE] line.
StreamOf(tokens, finish_reason) ==
    Repeat("content", tokens) \o <<finish_reason, "[DONE]">>

\* json.loads on the arguments of an LM Studio tool call, which raises on
\* anything but a string of JSON; Ollama's arguments are passed on as they
\* are, and a failure of the tool is caught in execute_tool.
ArgumentsLoad(backend_type, arguments) ==
    \/ backend_type = "ollama"
    \/ arguments = "json_string"

ChatReturn(called, finish_reason, tokens) ==
    [called EXCEPT !.pc = "returned", !.finish_reason = finish_reason,
                   !.events = IF called.variant = "stream_chat_response"
                              THEN StreamOf(tokens, finish_reason) ELSE <<>>]

ChatRaise(called, exception) ==
    [called EXCEPT !.pc = "raised", !.raised = exception]

ChatUnchanged ==
    UNCHANGED <<index_vars, crawler_vars, rag_config, server_vars, background>>

ChatStart(variant, backend_type, max_iterations) ==
    /\ chat.pc = "none"
    /\ chat' = [NoChat EXCEPT !.pc = "loop", !.variant = variant,
                              !.backend_type = backend_type,
                              !.max_iterations = max_iterations]
    /\ ChatUnchanged

\* One pass of `while iteration < max_iterations`.
ChatIteration(out) ==
    /\ chat.pc = "loop"
    /\ chat.iteration < chat.max_iterations
    /\ LET called == [chat EXCEPT !.iteration = @ + 1, !.backend_calls = @ + 1]
       IN chat' =
            CASE out.kind \in {"Timeout", "ConnectionError"} ->
                   ChatReturn(called, "error", 0)
              [] out.kind \in {"HTTPError", "JSONDecodeError"} ->
                   ChatRaise(called, out.kind)
              [] out.kind = "response" /\ ~out.tool_calls ->
                   ChatReturn(called, "stop", out.tokens)
              [] OTHER ->
                   IF ArgumentsLoad(chat.backend_type, out.arguments)
                   THEN [called EXCEPT !.tool_messages = @ + 1]
                   ELSE ChatRaise(called, "JSONDecodeError")
    /\ ChatUnchanged

\* The code after the loop.
ChatMaxIterations ==
    /\ chat.pc = "loop"
    /\ chat.iteration >= chat.max_iterations
    /\ chat' = ChatReturn(chat, "length", 0)
    /\ ChatUnchanged

InitChat ==
    /\ site_lastmod = [u \in URLS |-> 1]
    /\ config_max_pages = NumUrls
    /\ IndexEmpty
    /\ CrawlerIdle /\ ConfigIdle /\ ServerIdle /\ ServiceIdle

NextChat ==
    \/ \E v \in ChatVariants, b \in BackendTypes, m \in 1..MaxIterations :
          ChatStart(v, b, m)
    \/ \E out \in BackendOutcomes : ChatIteration(out)
    \/ ChatMaxIterations

\* A call of the backend returns or raises within its timeouts, and a tool
\* returns: a started pass of the loop completes.
SpecChat == InitChat /\ [][NextChat]_vars /\ WF_vars(NextChat)

\* ---- the index under search and under tampering
\* A file of the saved vector index is changed after its checksum was written.
TamperIndex ==
    /\ pc = "idle"
    /\ faiss_index.exists /\ faiss_index.checksum = "ok" /\ faiss_index.docs /= <<>>
    /\ faiss_index' = [faiss_index EXCEPT !.checksum = "bad",
                                          !.docs = Tail(faiss_index.docs)]
    /\ UNCHANGED <<env_vars, metadata_file, chunks_file, parent_chunks_file,
                   crawl_state_file, page_cache, mem_vars, pc, run, result,
                   prev_kill, calls, kills, other_vars>>

Searches ==
    \E q \in Queries, top_k \in TopKs, return_parent \in BOOLEAN, order \in RerankOrders :
        Search(q, top_k, return_parent, order)

NextServe ==
    \/ Crawl
    \/ CrawlEmbeddingOnly
    \/ LoadIndex
    \/ RebuildEmbeddings
    \/ Return
    \/ Restart
    \/ Site
    \/ \E m \in Models : SetEmbeddingModel(m)
    \/ TamperIndex
    \/ Searches

SpecServe == Init /\ [][NextServe]_vars

\* ---- a new release of the library
\* The next process runs a release with another INDEX_VERSION: the version in
\* metadata.json is no longer the current one.
UpgradeIndexVersion ==
    /\ pc = "idle"
    /\ metadata_file.exists /\ metadata_file.current_version
    /\ metadata_file' = [metadata_file EXCEPT !.current_version = FALSE]
    /\ ClearedMemory
    /\ prev_kill' = NoKill
    /\ UNCHANGED <<env_vars, chunks_file, parent_chunks_file, crawl_state_file,
                   page_cache, faiss_index, pc, run, result, calls, kills, other_vars>>

NextUpgrade ==
    \/ Crawl
    \/ CrawlEmbeddingOnly
    \/ Return
    \/ Site
    \/ \E m \in Models : SetEmbeddingModel(m)
    \/ UpgradeIndexVersion

SpecUpgrade == Init /\ [][NextUpgrade]_vars

\* ------------------------------------------------------------------ DocumentCrawler
Pages == 1..NumPages
base_url == 1
\* A page of the same host that is not under the base URL prefix.
OutsidePage == NumPages + 1
AllPages == Pages \cup {OutsidePage}
\* An anchor: how its href is written and the page the href resolves to
\* (urljoin with the base URL for a root-relative href, with the URL of the
\* page for a path-relative one).
Href(form, page) == [form |-> form, page |-> page]
\* The anchors of every page of the site, in document order: the next page
\* and the base URL, and links that leave the base prefix in each of the three
\* forms.
SiteLinks(p) ==
    IF p = base_url
    THEN <<Href("absolute", p + 1), Href("absolute", base_url),
           Href("absolute", OutsidePage), Href("root_relative", OutsidePage)>>
    ELSE IF p < NumPages
    THEN <<Href("absolute", p + 1), Href("path_relative", OutsidePage),
           Href("absolute", base_url)>>
    ELSE <<Href("root_relative", base_url)>>
\* soup.find_all("a", href=True) on the page the crawler has fetched.
Links(p) == crawler.links[p]
\* href.startswith(self.base_url)
StartsWithBase(page) == page \in Pages
\* The document at the sitemap location: its <sitemap> elements (each with the
\* <url> elements of the sub-sitemap its loc points to) and its <url> elements.
\* The site's own sitemap is a plain one that lists every page without lastmod.
SiteSitemap ==
    [sitemaps |-> <<>>,
     urls |-> [i \in 1..NumPages |-> [loc |-> i, lastmod |-> NoLastmod]]]

\* list.sort(key=lambda x: x.get("lastmod") or "", reverse=True): the elements
\* of s with lastmod v, v - 1, ..., none, each group in the order it had.
RECURSIVE SortNewestFirst(_, _)
SortNewestFirst(s, v) ==
    IF v < NoLastmod THEN <<>>
    ELSE SelectSeq(s, LAMBDA e : e.lastmod = v) \o SortNewestFirst(s, v - 1)

\* _parse_sitemap_xml on a document with <url> elements only.
ParseUrlset(entries) ==
    SortNewestFirst([i \in 1..Len(entries) |->
                        [url |-> entries[i].loc, lastmod |-> entries[i].lastmod]], MaxVer)

RECURSIVE ParseSubSitemaps(_)
ParseSubSitemaps(subs) ==
    IF subs = <<>> THEN <<>>
    ELSE ParseUrlset(Head(subs).urls) \o ParseSubSitemaps(Tail(subs))

\* _parse_sitemap_xml: a sitemap index has its sub-sitemaps parsed newest
\* first and their URLs appended; a plain sitemap has its URLs sorted.
parse_sitemap_xml(doc) ==
    IF doc.sitemaps /= <<>>
    THEN ParseSubSitemaps(SortNewestFirst(doc.sitemaps, MaxVer))
    ELSE ParseUrlset(doc.urls)

\* A URL as it is written in manual_urls: the page and what follows its path.
UrlSuffixes == {"", "/", "?q=1"}
\* _normalize_url: query, anchor and trailing slash removed.
normalize_url(raw) == raw[1]

\* The manual_urls a crawler is configured with.
ManualUrlLists == {<<>>, <<<<2, "">>>>, <<<<2, "/">>, <<3, "?q=1">>, <<2, "">>>>}

\* unique_urls = {url_info["url"]: url_info ...}: every URL once, in the order
\* of its first occurrence.
RECURSIVE Deduplicate(_, _)
Deduplicate(urls, seen) ==
    IF urls = <<>> THEN <<>>
    ELSE IF Head(urls) \in seen THEN Deduplicate(Tail(urls), seen)
    ELSE <<Head(urls)>> \o Deduplicate(Tail(urls), seen \cup {Head(urls)})

\* discover_and_crawl, lines 168-178.  `if self.max_pages and ...`: a max_pages
\* of 0 (or None) is no limit.
LimitPages(urls) ==
    LET unique == Deduplicate(urls, {}) IN
    IF crawler.max_pages /= 0 /\ Len(unique) > crawler.max_pages
    THEN SubSeq(unique, 1, crawler.max_pages)
    ELSE unique

\* discover_and_crawl up to the choice between the sitemap and the recursive crawl.
DiscoverStart ==
    /\ crawl.pc = "new"
    /\ LET urls == [i \in 1..Len(crawler.manual_urls) |-> normalize_url(crawler.manual_urls[i])] IN
       IF crawler.manual_urls_only
       THEN crawl' = [crawl EXCEPT !.pc = "discovered", !.result = urls]
       ELSE IF crawler.has_sitemap
       THEN LET sitemap_urls == parse_sitemap_xml(crawler.sitemap) IN
            crawl' = [crawl EXCEPT
                        !.pc = "discovered", !.sitemap_urls = sitemap_urls,
                        !.result = LimitPages(urls \o [i \in 1..Len(sitemap_urls) |->
                                                          sitemap_urls[i].url])]
       ELSE crawl' = [crawl EXCEPT !.pc = "recursive", !.manual = urls,
                                   !.queued = {base_url}, !.to_visit = <<<<base_url, 0>>>>]
    /\ UNCHANGED <<index_vars, crawler, rag_config, server_vars, service_vars>>

\* while to_visit and (not self.max_pages or len(urls) < self.max_pages)
RecursiveContinues ==
    /\ crawl.to_visit /= <<>>
    /\ crawler.max_pages = 0 \/ Len(crawl.urls) < crawler.max_pages

\* _recursive_crawl, lines 394-404: the hrefs that are made absolute and kept;
\* only an href written as an absolute URL is tested against the base prefix.
Followed(cur) ==
    SelectSeq(Links(cur), LAMBDA h : h.form = "absolute" => StartsWithBase(h.page))

\* The first occurrence of every page among the kept hrefs that is not yet
\* visited or queued (lines 407-410).
NewLinks(cur) ==
    LET kept == Followed(cur)
        pages == [i \in 1..Len(kept) |-> kept[i].page]
    IN Deduplicate(SelectSeq(pages, LAMBDA h : h \notin crawl.visited \cup {cur}
                                                /\ h \notin crawl.queued), {})

\* A pass of the loop that neither looks at visited nor at queued.
RecursiveStepRevisiting(fetched) ==
    /\ crawl.pc = "recursive"
    /\ RecursiveContinues
    /\ LET cur == Head(crawl.to_visit)[1]
           depth == Head(crawl.to_visit)[2]
           rest == Tail(crawl.to_visit)
           kept == Followed(cur)
           found == IF fetched THEN [i \in 1..Len(kept) |-> kept[i].page] ELSE <<>>
       IN IF depth > max_crawl_depth
          THEN fetched /\ crawl' = [crawl EXCEPT !.to_visit = rest]
          ELSE crawl' = [crawl EXCEPT
                   !.visited = @ \cup {cur},
                   !.urls = Append(@, cur),
                   !.requests = @ \cup {cur},
                   !.queued = @ \cup Range(found),
                   !.to_visit = rest \o [i \in 1..Len(found) |-> <<found[i], depth + 1>>]]
    /\ UNCHANGED <<index_vars, crawler, rag_config, server_vars, service_vars>>

\* One pass of the loop of _recursive_crawl; `fetched` tells whether the GET
\* of the page brought HTML.
RecursiveStep(fetched) ==
    /\ crawl.pc = "recursive"
    /\ RecursiveContinues
    /\ LET cur == Head(crawl.to_visit)[1]
           depth == Head(crawl.to_visit)[2]
           rest == Tail(crawl.to_visit)
           found == IF fetched THEN NewLinks(cur) ELSE <<>>
       IN IF cur \in crawl.visited \/ depth > max_crawl_depth
          THEN fetched /\ crawl' = [crawl EXCEPT !.to_visit = rest]
          ELSE crawl' = [crawl EXCEPT
                   !.visited = @ \cup {cur},
                   !.urls = Append(@, cur),
                   !.requests = @ \cup {cur},
                   !.queued = @ \cup Range(found),
                   !.to_visit = rest \o [i \in 1..Len(found) |-> <<found[i], depth + 1>>]]
    /\ UNCHANGED <<index_vars, crawler, rag_config, server_vars, service_vars>>

\* The recursive crawl has ended; discover_and_crawl returns.
RecursiveDone ==
    /\ crawl.pc = "recursive"
    /\ ~RecursiveContinues
    /\ crawl' = [crawl EXCEPT !.pc = "discovered",
                              !.result = LimitPages(crawl.manual \o crawl.urls)]
    /\ UNCHANGED <<index_vars, crawler, rag_config, server_vars, service_vars>>

\* crawl_and_index on an empty page cache: nothing is indexed and no URL has
\* failed max_url_retries times, so every discovered URL is submitted to the
\* worker pool.
SubmitFetches ==
    /\ crawl.pc = "discovered"
    /\ crawl.result /= <<>>
    /\ crawl' = [crawl EXCEPT !.pc = "fetching",
                   !.workers = [i \in 1..Len(crawl.result) |->
                                   [url |-> crawl.result[i], state |-> "submitted"]]]
    /\ UNCHANGED <<index_vars, crawler, rag_config, server_vars, service_vars>>

\* robot_parser.can_fetch(user_agent, url)
can_fetch(url) == url \notin crawler.disallowed

\* A worker runs _fetch_page_with_cache up to the write of the cache file:
\* the cache file is looked for, and without one fetch_page asks robots.txt
\* and then the site.
WorkerFetch(i, fetched) ==
    /\ crawl.pc = "fetching"
    /\ crawl.workers[i].state = "submitted"
    /\ LET url == crawl.workers[i].url IN
       IF url \in crawl.cached
       THEN fetched /\ crawl' = [crawl EXCEPT !.workers[i].state = "from_cache"]
       ELSE IF crawler.robots_loaded /\ ~can_fetch(url)
       THEN fetched /\ crawl' = [crawl EXCEPT !.workers[i].state = "failed"]
       ELSE crawl' = [crawl EXCEPT !.requests = @ \cup {url},
                         !.workers[i].state = IF fetched THEN "saving" ELSE "failed"]
    /\ UNCHANGED <<index_vars, crawler, rag_config, server_vars, service_vars>>

\* The worker's _save_cached_page has written pages/{sha256(url)}.json.
WorkerSave(i) ==
    /\ crawl.pc = "fetching"
    /\ crawl.workers[i].state = "saving"
    /\ crawl' = [crawl EXCEPT !.cached = @ \cup {crawl.workers[i].url},
                              !.workers[i].state = "fetched"]
    /\ UNCHANGED <<index_vars, crawler, rag_config, server_vars, service_vars>>

Workers ==
    \E i \in 1..Len(crawl.workers) :
        \/ \E fetched \in BOOLEAN : WorkerFetch(i, fetched)
        \/ WorkerSave(i)

\* _fetch_pages, the body of `for future in as_completed(...)`: a page is
\* appended and the failure record of its URL dropped; a worker that returned
\* None or raised goes through _track_url_failure.
CollectFuture(i) ==
    /\ crawl.pc = "fetching"
    /\ crawl.workers[i].state \in {"from_cache", "fetched", "failed"}
    /\ LET url == crawl.workers[i].url IN
       IF crawl.workers[i].state = "failed"
       THEN crawl' = [crawl EXCEPT !.failed_urls[url] = @ + 1,
                                   !.workers[i].state = "collected_failure"]
       ELSE crawl' = [crawl EXCEPT !.pages = Append(@, url),
                                   !.failed_urls[url] = 0,
                                   !.workers[i].state = "collected_page"]
    /\ UNCHANGED <<index_vars, crawler, rag_config, server_vars, service_vars>>

\* _fetch_pages returns pages and failed_urls, and crawl_and_index writes the
\* failed_urls into the crawl state file.
FetchPagesReturns ==
    /\ crawl.pc = "fetching"
    /\ \A i \in 1..Len(crawl.workers) :
          crawl.workers[i].state \in {"collected_page", "collected_failure"}
    /\ crawl' = [crawl EXCEPT !.pc = "fetched",
                               !.saved_failed_urls = crawl.failed_urls]
    /\ UNCHANGED <<index_vars, crawler, rag_config, server_vars, service_vars>>

\* A DocumentCrawler as __init__ leaves it: robots.txt loaded or not, with
\* the URLs its rules reject.
Crawlers ==
    {c \in [robots_loaded : BOOLEAN, disallowed : SUBSET Pages, max_pages : 0..MaxPagesLimit,
            manual_urls : ManualUrlLists, manual_urls_only : BOOLEAN, has_sitemap : BOOLEAN,
            sitemap : {SiteSitemap}, links : {[p \in AllPages |-> SiteLinks(p)]}] :
        ~c.robots_loaded => c.disallowed = {}}

InitCrawler ==
    /\ site_lastmod = [u \in URLS |-> 1]
    /\ config_max_pages = NumUrls
    /\ IndexEmpty
    /\ ConfigIdle /\ ServerIdle /\ ServiceIdle
    /\ crawler \in Crawlers
    /\ \E failed \in [AllPages -> 0..(max_url_retries - 1)] :
          crawl = [NoCrawl EXCEPT !.pc = "new", !.failed_urls = failed,
                                  !.failed_before = failed]

NextCrawler ==
    \/ DiscoverStart
    \/ \E fetched \in BOOLEAN : RecursiveStep(fetched)
    \/ RecursiveDone
    \/ SubmitFetches
    \/ Workers
    \/ \E i \in 1..Len(crawl.workers) : CollectFuture(i)
    \/ FetchPagesReturns

SpecCrawler == InitCrawler /\ [][NextCrawler]_vars

\* ---- the recursive crawl over every link graph of the pages under the base URL
\* Anchors to the pages of S, in the order of the pages.
RECURSIVE AnchorsTo(_)
AnchorsTo(S) ==
    IF S = {} THEN <<>>
    ELSE LET first == CHOOSE p \in S : \A q \in S : p <= q
         IN <<Href("absolute", first)>> \o AnchorsTo(S \ {first})

LinkGraphs ==
    {[p \in AllPages |-> IF p \in Pages THEN AnchorsTo(g[p]) ELSE <<>>] :
        g \in [Pages -> SUBSET Pages]}

InitRecursive ==
    /\ site_lastmod = [u \in URLS |-> 1]
    /\ config_max_pages = NumUrls
    /\ IndexEmpty
    /\ ConfigIdle /\ ServerIdle /\ ServiceIdle
    /\ \E graph \in LinkGraphs, n \in 0..MaxPagesLimit :
          crawler = [NoCrawler EXCEPT !.links = graph, !.max_pages = n]
    /\ crawl = [NoCrawl EXCEPT !.pc = "new"]

NextRecursive ==
    \/ DiscoverStart
    \/ \E fetched \in BOOLEAN : RecursiveStep(fetched)
    \/ RecursiveDone

\* _recursive_crawl is a sequential loop: it always takes its next step.
SpecRecursive == InitRecursive /\ [][NextRecursive]_vars /\ WF_vars(NextRecursive)

\* ---- discovery over every sitemap document of a bounded size
UrlElements == [loc : Pages, lastmod : {NoLastmod} \cup Lastmods]
Urlsets == UNION {[1..n -> UrlElements] : n \in 1..MaxSitemapLen}
SitemapElements == [lastmod : {NoLastmod} \cup Lastmods, urls : Urlsets]
SitemapDocs ==
    {[sitemaps |-> <<>>, urls |-> u] : u \in Urlsets}
    \cup {[sitemaps |-> s, urls |-> <<>>] :
            s \in UNION {[1..n -> SitemapElements] : n \in 1..MaxSitemapLen}}

InitSitemap ==
    /\ site_lastmod = [u \in URLS |-> 1]
    /\ config_max_pages = NumUrls
    /\ IndexEmpty
    /\ ConfigIdle /\ ServerIdle /\ ServiceIdle
    /\ \E doc \in SitemapDocs, n \in 0..MaxPagesLimit :
          crawler = [NoCrawler EXCEPT !.has_sitemap = TRUE, !.sitemap = doc,
                                      !.max_pages = n]
    /\ crawl = [NoCrawl EXCEPT !.pc = "new"]

NextSitemap == DiscoverStart

SpecSitemap == InitSitemap /\ [][NextSitemap]_vars

\* ------------------------------------------------------------------ RAGConfig
\* The tolerance 0.01 of __post_init__ and the weights a config is built with
\* (0.0 to 1.1), in units.
WeightTolerance == WeightScale \div 100
Weights == 0..(WeightScale + WeightScale \div 10)
\* Where the float result of abs(bm25 + semantic - 1.0) lies relative to the
\* exact value: below it, on it, above it.
Roundings == {-1, 0, 1}

\* The exact value of abs(total_weight - 1.0), in units.
WeightDistance(c) ==
    LET d == c.hybrid_bm25_weight + c.hybrid_semantic_weight - WeightScale
    IN IF d < 0 THEN 0 - d ELSE d

\* A validation that takes only a sum of exactly 1.0.
weights_rejected_without_tolerance(c) == WeightDistance(c) /= 0

\* __post_init__: abs(total_weight - 1.0) > 0.01, in float arithmetic.
weights_rejected(c) ==
    \/ WeightDistance(c) > WeightTolerance
    \/ WeightDistance(c) = WeightTolerance /\ c.rounding > 0

\* RAGConfig(hybrid_bm25_weight=..., hybrid_semantic_weight=...)
ConstructConfig ==
    /\ rag_config.outcome = "none"
    /\ rag_config' = [rag_config EXCEPT
                         !.outcome = IF weights_rejected(rag_config) THEN "raised"
                                     ELSE "constructed"]
    /\ UNCHANGED <<index_vars, crawler_vars, server_vars, service_vars>>

InitConfig ==
    /\ site_lastmod = [u \in URLS |-> 1]
    /\ config_max_pages = NumUrls
    /\ IndexEmpty
    /\ CrawlerIdle /\ ServerIdle /\ ServiceIdle
    /\ rag_config \in [hybrid_bm25_weight : Weights, hybrid_semantic_weight : Weights,
                       rounding : Roundings, outcome : {"none"}]

NextConfig == ConstructConfig

SpecConfig == InitConfig /\ [][NextConfig]_vars

\* ------------------------------------------------------------------ LLMServer
Threads == 1..NumThreads
PromptTexts == 1..NumTexts
\* self.default_system_prompt
DefaultPrompt == -1
\* self._system_prompt_cache is None
NoCache == 0

IdleCaller == [pc |-> "idle", current_mtime |-> 0, text |-> NoCache, during |-> {},
               ret |-> NoCache]

\* What a reader of SYSTEM_PROMPT_PATH is to get now.
CurrentPrompt(f) == IF f.exists THEN f.content ELSE DefaultPrompt

\* The calls in progress see one more state of the file.
Witnessed(f) ==
    [t \in Threads |->
        IF callers[t].pc \in {"idle", "returned"} THEN callers[t]
        ELSE [callers[t] EXCEPT !.during = @ \cup {CurrentPrompt(f)}]]

Returning(t, prompt) == [callers EXCEPT ![t].pc = "returned", ![t].ret = prompt]

\* A thread calls get_system_prompt.
CallGetSystemPrompt(t) ==
    /\ callers[t].pc = "idle"
    /\ callers' = [callers EXCEPT ![t] = [IdleCaller EXCEPT !.pc = "exists",
                                             !.during = {CurrentPrompt(prompt_file)}]]
    /\ UNCHANGED <<index_vars, crawler_vars, rag_config, prompt_file, fs_clock, server, service_vars>>

\* if not prompt_path.exists(): return self.default_system_prompt
CheckExists(t) ==
    /\ callers[t].pc = "exists"
    /\ callers' = IF prompt_file.exists THEN [callers EXCEPT ![t].pc = "stat"]
                  ELSE Returning(t, DefaultPrompt)
    /\ UNCHANGED <<index_vars, crawler_vars, rag_config, prompt_file, fs_clock, server, service_vars>>

\* current_mtime = prompt_path.stat().st_mtime and the test of the cache; a
\* file that has gone raises and the default prompt is returned.
StatAndCheckCache(t) ==
    /\ callers[t].pc = "stat"
    /\ callers' =
         IF ~prompt_file.exists THEN Returning(t, DefaultPrompt)
         ELSE IF /\ server.system_prompt_cache /= NoCache
                 /\ server.system_prompt_mtime = prompt_file.mtime
         THEN Returning(t, server.system_prompt_cache)
         ELSE [callers EXCEPT ![t].pc = "read", ![t].current_mtime = prompt_file.mtime]
    /\ UNCHANGED <<index_vars, crawler_vars, rag_config, prompt_file, fs_clock, server, service_vars>>

\* prompt_path.read_text(...); a file that has gone raises and the default
\* prompt is returned.
ReadPrompt(t) ==
    /\ callers[t].pc = "read"
    /\ callers' = IF prompt_file.exists
                  THEN [callers EXCEPT ![t].pc = "set_cache", ![t].text = prompt_file.content]
                  ELSE Returning(t, DefaultPrompt)
    /\ UNCHANGED <<index_vars, crawler_vars, rag_config, prompt_file, fs_clock, server, service_vars>>

\* self._system_prompt_cache = <the text read>
SetCache(t) ==
    /\ callers[t].pc = "set_cache"
    /\ server' = [server EXCEPT !.system_prompt_cache = callers[t].text]
    /\ callers' = [callers EXCEPT ![t].pc = "set_mtime"]
    /\ UNCHANGED <<index_vars, crawler_vars, rag_config, prompt_file, fs_clock, service_vars>>

\* self._system_prompt_mtime = current_mtime
SetMtime(t) ==
    /\ callers[t].pc = "set_mtime"
    /\ server' = [server EXCEPT !.system_prompt_mtime = callers[t].current_mtime]
    /\ callers' = [callers EXCEPT ![t].pc = "return"]
    /\ UNCHANGED <<index_vars, crawler_vars, rag_config, prompt_file, fs_clock, service_vars>>

\* return self._system_prompt_cache
ReturnCache(t) ==
    /\ callers[t].pc = "return"
    /\ callers' = Returning(t, server.system_prompt_cache)
    /\ UNCHANGED <<index_vars, crawler_vars, rag_config, prompt_file, fs_clock, server, service_vars>>

\* The caller has its prompt; the thread is free for the next call.
CallerDone(t) ==
    /\ callers[t].pc = "returned"
    /\ callers' = [callers EXCEPT ![t] = IdleCaller]
    /\ UNCHANGED <<index_vars, crawler_vars, rag_config, prompt_file, fs_clock, server, service_vars>>

GetSystemPrompt(t) ==
    \/ CallGetSystemPrompt(t)
    \/ CheckExists(t)
    \/ StatAndCheckCache(t)
    \/ ReadPrompt(t)
    \/ SetCache(t)
    \/ SetMtime(t)
    \/ ReturnCache(t)
    \/ CallerDone(t)

\* The prompt file is written with another text; its mtime is the time of
\* the filesystem clock.
WritePromptFile(text) ==
    /\ ~prompt_file.exists \/ prompt_file.content /= text
    /\ prompt_file' = [exists |-> TRUE, content |-> text, mtime |-> fs_clock]
    /\ callers' = Witnessed(prompt_file')
    /\ UNCHANGED <<index_vars, crawler_vars, rag_config, fs_clock, server, service_vars>>

DeletePromptFile ==
    /\ prompt_file.exists
    /\ prompt_file' = NoPromptFile
    /\ callers' = Witnessed(prompt_file')
    /\ UNCHANGED <<index_vars, crawler_vars, rag_config, fs_clock, server, service_vars>>

\* The filesystem clock moves on by one unit of its resolution.
ClockTick ==
    /\ fs_clock < MaxClock
    /\ fs_clock' = fs_clock + 1
    /\ UNCHANGED <<index_vars, crawler_vars, rag_config, prompt_file, server, callers, service_vars>>

InitServer ==
    /\ site_lastmod = [u \in URLS |-> 1]
    /\ config_max_pages = NumUrls
    /\ IndexEmpty
    /\ CrawlerIdle /\ ConfigIdle /\ ServiceIdle
    /\ prompt_file = NoPromptFile
    /\ fs_clock = 1
    /\ server = NoPromptCache
    /\ callers = [t \in Threads |-> IdleCaller]

NextServer ==
    \/ \E t \in Threads : GetSystemPrompt(t)
    \/ \E text \in PromptTexts : WritePromptFile(text)
    \/ DeletePromptFile
    \/ ClockTick

SpecServer == InitServer /\ [][NextServer]_vars

\* ------------------------------------------------------------------ properties
\* A call has returned normally and its effects are in place.
Returned == pc = "done" /\ result = "ok"
\* crawl_and_index has returned normally.
CrawlReturned == Returned /\ run.op \in {"crawl", "up_to_date", "embedding_only"}
\* crawl_and_index went past the up-to-date check without a force flag.
NonForcedRun == run.op = "crawl" /\ ~run.force_rebuild /\ ~run.force_refresh

NoDuplicateIds(cs) == Cardinality(ChunkIds(cs)) = Len(cs)

\* URL u has a chunk that search can return.
Searchable(u) ==
    \/ ChunksOfUrl(chunks, u) /= {}
    \/ ChunksOfUrl(chunks_file.data, u) /= {}
    \/ ChunksOfUrl(vectorstore.docs, u) /= {}

\* The page cached for u has the content of the page cached for another URL.
ContentDuplicate(u) ==
    \E w \in URLS \ {u} : /\ page_cache[u].exists /\ page_cache[w].exists
                          /\ page_cache[u].html = page_cache[w].html

\* Version of the page a chunk was cut from (chunk_id = <<url, position, html>>).
ChunkVersion(c) == c.chunk_id[3][2]

\* URLs the fetch phase of the running call delivered from the page cache.
ServedFromCache == {p.url : p \in {q \in Range(run.new_pages) : q.from_cache}}

\* Every child of cs has its parent in ps.
ParentsPresent(cs, ps) ==
    \A i \in 1..Len(cs) :
        cs[i].parent_id /= NoParent => \E p \in ps : p.chunk_id = cs[i].parent_id

\* C1: after every crawl_and_index that returns normally, also one that
\* follows a run killed between the fetch phase and the saving of the chunks,
\* every URL of the persisted indexed_urls has at least one searchable chunk
\* unless its page is a content duplicate of another URL's page.
C1_IndexedUrlsHaveChunks ==
    CrawlReturned =>
        \A u \in crawl_state_file.indexed_urls : Searchable(u) \/ ContentDuplicate(u)

\* C2: in a crawl_and_index(force_rebuild=True) no page of the fetch phase is
\* a cache hit: every discovered URL whose fetch succeeds is fetched again and
\* goes into chunking.
C2_ForceRebuildRefetchesAll ==
    (run.op = "crawl" /\ run.force_rebuild) =>
        \A i \in 1..Len(run.new_pages) : ~run.new_pages[i].from_cache

\* C3: when a non-forced run that went past the up-to-date check has returned
\* normally and its fetch phase delivered a page for an already indexed URL u,
\* no chunk and no parent cut from a version of u other than the one the
\* sitemap reports now is left in the chunk store, the parent store or the
\* vector index (no run was killed before).
C3_LastmodChangeRefreshes ==
    (Returned /\ NonForcedRun /\ kills = 0) =>
        \A u \in run.pre_indexed \cap NewlyIndexed(run.new_pages) :
            /\ \A c \in ChunksOfUrl(chunks_file.data, u) : ChunkVersion(c) = site_lastmod[u]
            /\ \A c \in ChunksOfUrl(vectorstore.docs, u) : ChunkVersion(c) = site_lastmod[u]
            /\ \A p \in parent_chunks_file.data :
                   p.url = u => ChunkVersion(p) = site_lastmod[u]

\* C4: after a run was killed between the rewriting of chunks.json and the
\* saving of the vector index, the next crawl_and_index or load_index that
\* returns normally with a vector index holds in it exactly the chunks of
\* chunks.json.
C4_IndexMatchesChunksAfterKill ==
    (Returned /\ prev_kill.phase = "chunks_saved" /\ vectorstore.built) =>
        ChunkIds(vectorstore.docs) = ChunkIds(chunks_file.data)

\* C5: in a sequence of uninterrupted calls, after every call that returns
\* normally with a non-empty chunk list, the vector index, the BM25 index and
\* the chunk list hold the same set of chunk_ids.
C5_IndexesAgree ==
    (Returned /\ chunks /= <<>>) =>
        /\ vectorstore.built
        /\ ChunkIds(vectorstore.docs) = ChunkIds(chunks)
        /\ ChunkIds(bm25_retriever) = ChunkIds(chunks)

C5_Witness ==
    /\ Returned /\ run.op = "crawl" /\ run.strategy = "full"
    /\ run.pre_chunks /= <<>> /\ Len(chunks) >= 2
    /\ ChunkIds(vectorstore.docs) = ChunkIds(chunks)

\* C6: a non-forced run that resumes or expands, re-fetches no previously
\* indexed URL and brings chunks of new URLs to an existing index adds them
\* incrementally; it does not embed every chunk again.
C6_NewUrlsAddedIncrementally ==
    (/\ pc = "metadata" /\ NonForcedRun /\ kills = 0
     /\ run.is_resuming \/ run.is_expanding
     /\ run.refreshed_urls /= {}
     /\ run.refreshed_urls \cap run.pre_indexed = {}
     /\ run.pre_chunks /= <<>>
     /\ Len(chunks) > Len(run.pre_chunks)
     /\ metadata_file.num_chunks = Len(run.pre_chunks))
        => run.strategy = "incremental"

\* C7: whatever runs came before, killed ones included, no two chunks of the
\* searchable list share a chunk_id, in memory and in chunks.json.
C7_UniqueChunkIds == NoDuplicateIds(chunks) /\ NoDuplicateIds(chunks_file.data)

C7_Witness ==
    /\ Returned /\ run.op = "crawl" /\ run.is_refreshing
    /\ \E u \in run.refreshed_urls :
          /\ ChunksOfUrl(run.pre_chunks, u) /= {}
          /\ ChunksOfUrl(chunks, u) = ChunksOfUrl(run.pre_chunks, u)
    /\ Len(chunks) >= 2

\* C8: when crawl_and_index has returned normally, the chunks and the parents
\* of every URL whose page was served from the cache are the ones from before
\* the run.
C8_CacheHitLeavesChunksAlone ==
    (Returned /\ run.op = "crawl") =>
        \A u \in ServedFromCache :
            /\ ChunksOfUrl(chunks_file.data, u) = ChunksOfUrl(run.pre_chunks, u)
            /\ {p \in parent_chunks_file.data : p.url = u}
                   = {p \in run.pre_parents : p.url = u}

\* C9: after every run that returns normally with a searchable list, every
\* searchable chunk with a parent_id has that parent in the parent store, in
\* memory and in parent_chunks.json.
C9_ParentsPresent ==
    (CrawlReturned /\ chunks /= <<>>) =>
        /\ ParentsPresent(chunks, parent_chunks)
        /\ ParentsPresent(chunks_file.data, parent_chunks_file.data)

\* C10: when a run was killed in its fetch phase and crawl_and_index is called
\* again with the same flags and configuration against the same site, the
\* persisted indexed_urls holds what the killed run would have written had it
\* gone on: at least the URLs indexed before it and the pages it had fetched.
C10_RerunCompletesKilledFetch ==
    (/\ Returned /\ prev_kill.phase = "fetch"
     /\ \/ run.op = "up_to_date"
        \/ run.op = "crawl" /\ run.url_list /= <<>>
     /\ run.force_rebuild = prev_kill.force_rebuild
     /\ run.force_refresh = prev_kill.force_refresh
     /\ \A u \in prev_kill.expect : run.failed_urls[u] = 0)
        => prev_kill.expect \subseteq crawl_state_file.indexed_urls

\* C11: when crawl_and_index without a flag has returned normally a second
\* time on unchanged inputs, chunks.json holds the chunks it held after the
\* first run and the saved vector index, with its checksum, is the one of the
\* first run (compared as sets of chunks, whatever their order).
C11_SecondRunChangesNothing ==
    (CrawlReturned /\ calls >= 2) =>
        /\ Range(chunks_file.data) = Range(run.pre_chunks)
        /\ Range(faiss_index.docs) = Range(run.pre_faiss.docs)
        /\ faiss_index.checksum = run.pre_faiss.checksum

\* C12: when crawl_and_index has taken the embedding-only path (the persisted
\* embedding model differs from the configured one, chunks.json exists, no
\* force flag), it has returned normally, chunks.json, parent_chunks.json and
\* the indexed URLs are what they were, the vector index holds the persisted
\* chunks and metadata.embedding_model is the configured model.
C12_EmbeddingOnlyRebuild ==
    (pc = "done" /\ run.op = "embedding_only") =>
        /\ result = "ok"
        /\ chunks_file.data = run.pre_chunks
        /\ parent_chunks_file.data = run.pre_parents
        /\ crawl_state_file.indexed_urls = run.pre_indexed
        /\ vectorstore.built /\ vectorstore.docs = chunks_file.data
        /\ faiss_index.docs = chunks_file.data
        /\ metadata_file.embedding_model = config_embedding_model

\* A URL whose persisted failure count has reached max_url_retries.
Quarantined(u) == crawl_state_file.failed_urls[u] >= max_url_retries

\* C13: while the persisted failure_count of a URL is at least
\* max_url_retries, no step of a run without force_rebuild submits the URL to
\* the fetch phase or changes its failure record.
C13_QuarantineKept ==
    [][\A u \in URLS :
          (Quarantined(u) /\ ~run.force_rebuild /\ ~run'.force_rebuild) =>
              /\ \A info \in run'.pending : info.url /= u
              /\ crawl_state_file'.failed_urls[u] = crawl_state_file.failed_urls[u]]_vars

C13_Witness ==
    /\ pc = "fetch" /\ ~run.force_rebuild /\ run.is_refreshing
    /\ run.new_pages = <<>> /\ run.failed_urls = crawl_state_file.failed_urls
    /\ run.pending /= {}
    /\ \E u \in URLS :
          /\ Quarantined(u)
          /\ \E i \in 1..Len(run.url_list) : run.url_list[i].url = u
          /\ \A info \in run.pending : info.url /= u

\* C14: the step in which discovery returns zero URLs ends the run, starts no
\* fetch and leaves every file of the cache directory as it was (discovered
\* URLs, crawl_complete, max_pages_limit, indexed and failed URLs, chunks,
\* index), with force_rebuild as without.
C14_EmptyDiscoveryWritesNothing ==
    [][(pc = "discover" /\ pc' = "done" /\ run'.url_list = <<>>) =>
          /\ UNCHANGED disk_vars
          /\ run'.pending = {} /\ run'.new_pages = <<>>]_vars

C14_Witness ==
    /\ Returned /\ run.op = "crawl" /\ run.url_list = <<>> /\ run.force_rebuild
    /\ crawl_state_file.indexed_urls /= {}
    /\ crawl_state_file.crawl_complete
    /\ chunks_file.data = run.pre_chunks /\ chunks_file.data /= <<>>

\* The URL records a run can hand to the fetch phase.
UrlInfos == [url : URLS, lastmod : Lastmods \cup {NoLastmod}]

\* The page is in the cache with the lastmod the run supplies, or the run
\* supplies none and the entry is within page_cache_ttl_hours (or the TTL is 0).
CacheEntryValid(info) ==
    /\ page_cache[info.url].exists
    /\ \/ info.lastmod /= NoLastmod /\ page_cache[info.url].lastmod = info.lastmod
       \/ info.lastmod = NoLastmod /\ ~page_cache[info.url].expired

C16_NeedsUpdateExactly ==
    LET no_metadata == ~metadata_file.exists
        version_differs == ~metadata_file.current_version
        model_differs == /\ metadata_file.embedding_model /= ""
                         /\ metadata_file.embedding_model /= config_embedding_model
        max_pages_larger == /\ crawl_state_file.max_pages_limit /= 0
                            /\ config_max_pages > crawl_state_file.max_pages_limit
        interval_passed == ~metadata_file.recent
    IN needs_update <=> (\/ no_metadata \/ version_differs \/ model_differs
                         \/ max_pages_larger \/ interval_passed)

C16_Witness ==
    /\ pc = "discover" /\ NonForcedRun /\ run.is_expanding
    /\ metadata_file.exists /\ metadata_file.recent /\ metadata_file.current_version
    /\ metadata_file.embedding_model = config_embedding_model
    /\ needs_update

\* A load of the saved index has ended, and the index files had been changed
\* after their checksum was written.
TamperedLoad ==
    /\ pc = "done" /\ run.op = "load_index"
    /\ run.pre_faiss.exists /\ run.pre_faiss.checksum = "bad"
    /\ chunks_file.data /= <<>>

\* C17: when a file of the saved vector index was changed after its checksum
\* file was written, the next load_index fails with the tamper error, and no
\* index is loaded.
C17_TamperErrorSurfaced ==
    TamperedLoad => result = "raised" /\ ~vectorstore.built /\ bm25_retriever = <<>>

\* A search has returned.
SearchReturned == pc = "done" /\ run.op = "search" /\ run.search.called

\* The parent records the store holds under the parent_id of result r.
StoredParents(r) == {p \in parent_chunks : r.parent_id /= NoParent /\ p.chunk_id = r.parent_id}

\* C18: on a searchable index, search with return_parent = true attaches to
\* every result whose chunk has a parent_id present in the parent store the
\* content of exactly that parent as parent_text; with return_parent = false
\* no result carries parent_text.
C18_ParentTextAttached ==
    SearchReturned =>
        \A i \in 1..Len(run.search.results) :
            LET r == run.search.results[i] IN
            IF run.search.return_parent
            THEN \A p \in StoredParents(r) : r.parent_text = ParentContent(p)
            ELSE r.parent_text = NoParentText

\* C19: every parent_text that search returns is at most
\* parent_context_max_chars long when that setting is greater than 0, and is
\* the full parent content when the setting is 0.
C19_ParentTextTruncated ==
    (SearchReturned /\ run.search.return_parent) =>
        \A i \in 1..Len(run.search.results) :
            LET r == run.search.results[i] IN
            r.parent_text /= NoParentText =>
                IF parent_context_max_chars > 0
                THEN Len(r.parent_text) <= parent_context_max_chars
                ELSE \A p \in StoredParents(r) : r.parent_text = ParentContent(p)

\* C20: a search on an instance whose hybrid retriever is not loaded returns
\* an empty list, raises nothing, and leaves the cache directory and the
\* instance as they were, whatever the query, top_k and return_parent are.
C20_UnloadedSearchReturnsEmpty ==
    [][(pc = "idle" /\ pc' = "done" /\ run'.op = "search" /\ ~ensemble_retriever) =>
          /\ run'.search.called
          /\ run'.search.results = <<>>
          /\ ~run'.search.raised /\ result' = "ok"
          /\ UNCHANGED <<disk_vars, mem_vars>>]_vars

C20_Witness ==
    /\ SearchReturned /\ ~ensemble_retriever
    /\ run.search.return_parent /\ run.search.top_k > 0
    /\ chunks_file.data /= <<>> /\ faiss_index.exists
    /\ run.search.results = <<>> /\ result = "ok"

\* C21: when robots.txt was parsed, no page is requested for a URL that
\* can_fetch rejects, in the fetch phase and while links are followed in
\* recursive discovery.
C21_RobotsRespected ==
    crawler.robots_loaded => \A url \in crawl.requests : can_fetch(url)

\* C22: with max_pages = 0 discovery yields no URL, from the sitemap and from
\* the recursive crawl, and no page is requested or submitted for fetching.
C22_ZeroMaxPagesEmptyRun ==
    (crawler.max_pages = 0 /\ crawler.manual_urls = <<>>) =>
        /\ crawl.result = <<>>
        /\ crawl.urls = <<>>
        /\ crawl.requests = {}
        /\ crawl.workers = <<>>

\* The distance between the sum of the weights and 1.0, as computed, is at
\* most 0.01.
WithinTolerance(c) ==
    \/ WeightDistance(c) < WeightTolerance
    \/ WeightDistance(c) = WeightTolerance /\ c.rounding <= 0

C24_PromptIsCurrent ==
    \A t \in Threads :
        callers[t].pc = "returned" => callers[t].ret \in callers[t].during

\* C25: after crawl_and_index(force_rebuild=True) has returned normally from
\* a run that built chunks, the chunk list and the parent store hold only
\* chunks of the pages that run chunked: nothing from before the call is left,
\* whatever comes with the flag (force_refresh, or a raised max_pages).
C25_ForceRebuildStartsOver ==
    (CrawlReturned /\ run.op = "crawl" /\ run.force_rebuild /\ run.strategy /= "none") =>
        /\ \A i \in 1..Len(chunks) : chunks[i].url \in run.refreshed_urls
        /\ \A i \in 1..Len(chunks_file.data) : chunks_file.data[i].url \in run.refreshed_urls
        /\ \A p \in parent_chunks : p.url \in run.refreshed_urls

\* C26: metadata.json records the current index version only when every
\* persisted chunk was cut under that version: a run without force flags that
\* finds another version in metadata.json has re-chunked every page that has
\* chunks in chunks.json when it has written metadata with the current
\* version, also when the embedding model changed at the same time.
C26_VersionMeansRechunked ==
    (/\ Returned /\ run.op \in {"crawl", "embedding_only"}
     /\ ~run.force_rebuild /\ ~run.force_refresh
     /\ run.pre_metadata.exists /\ ~run.pre_metadata.current_version
     /\ metadata_file.current_version) =>
        \A i \in 1..Len(chunks_file.data) : chunks_file.data[i].url \in run.refreshed_urls

\* The pages of a set, in the order of their URLs.
RECURSIVE PagesByUrl(_)
PagesByUrl(ps) ==
    IF ps = {} THEN <<>>
    ELSE LET first == CHOOSE p \in ps : \A q \in ps : p.url <= q.url
         IN <<first>> \o PagesByUrl(ps \ {first})

\* What the chunk phase writes to chunks.json when it chunks its pages in the
\* order of their URLs.
ChunksInUrlOrder ==
    LET fresh == {p \in Range(run.new_pages) : ~p.from_cache}
        keep == run.is_resuming \/ run.is_expanding \/ run.is_refreshing
        existing == IF keep THEN PurgeChunks(run.pre_chunks, {p.url : p \in fresh}) ELSE <<>>
    IN create_chunks([chunks |-> existing, parent_chunks |-> {}, child_to_parent |-> {}],
                     PagesByUrl(fresh)).chunks

\* C27: for a given set of fetched pages, what is written to chunks.json (the
\* order of the chunks, and the URL that keeps a content shared by several
\* pages) is what chunking the pages in URL order gives, in whatever order
\* the parallel fetches completed.
C27_ChunkOrderIndependent ==
    pc = "save_parents" => chunks_file.data = ChunksInUrlOrder

\* C28: in one fetch phase no two workers write the same page-cache file:
\* a normalized URL is never in the hands of two workers that are both about
\* to save its page, in any discovery mode.
C28_DisjointCacheWrites ==
    ~\E i, j \in 1..Len(crawl.workers) :
        /\ i /= j /\ crawl.workers[i].url = crawl.workers[j].url
        /\ crawl.workers[i].state = "saving" /\ crawl.workers[j].state = "saving"

\* URLs _fetch_pages was called with.
Submitted == {crawl.workers[i].url : i \in 1..Len(crawl.workers)}

\* C29: when a fetch phase has ended, every submitted URL is either in the
\* returned page list and without a failure record, or absent from the page
\* list with a failure_count exactly one higher than before the phase; the
\* records of the URLs that were not submitted are as before; and every
\* submitted URL has come to one of the two ends, whatever failed.
C29_FetchOutcomes ==
    crawl.pc = "fetched" =>
        /\ \A url \in Submitted :
              \/ /\ url \in Range(crawl.pages)
                 /\ crawl.failed_urls[url] = 0
              \/ /\ url \notin Range(crawl.pages)
                 /\ crawl.failed_urls[url] = crawl.failed_before[url] + 1
        /\ \A url \in AllPages \ Submitted :
              crawl.failed_urls[url] = crawl.failed_before[url]

\* C30: in every persisted crawl state the failure_count of a URL is at most
\* max_url_retries (a URL without a failure record counts as 0 here, so a
\* recorded count is at least 1 by construction).
C30_FailureCountBounded ==
    crawl.pc = "fetched" =>
        \A url \in AllPages : crawl.saved_failed_urls[url] <= max_url_retries

\* The URLs of the running crawl_and_index that were indexed before it and
\* whose fetch failed in it.
RefetchFailed == {u \in run.fetch_failed : u \in run.pre_indexed}

\* What the chunk store, the parent store, the crawl state and the page cache
\* hold for URL u is what they held when the run started.
StoresKeep(u) ==
    /\ ChunksOfUrl(chunks_file.data, u) = ChunksOfUrl(run.pre_chunks, u)
    /\ {p \in parent_chunks_file.data : p.url = u} = {p \in run.pre_parents : p.url = u}
    /\ u \in crawl_state_file.indexed_urls

\* C31 as stated: whatever the run, a previously indexed URL whose fetch fails
\* keeps its chunks and parents and stays in indexed_urls.
C31_FailedRefetchKeepsStores ==
    run.op = "crawl" => \A u \in RefetchFailed : StoresKeep(u)

\* C31 amended: the same for a run without force_rebuild.
C31_FailedRefetchKeepsStoresUnlessRebuilt ==
    (run.op = "crawl" /\ ~run.force_rebuild) => \A u \in RefetchFailed : StoresKeep(u)

\* A run without force_rebuild has chunked a fetched page and is done, and the
\* fetch of a URL that had chunks before has failed in it.
C31_Witness ==
    /\ pc = "done" /\ run.op = "crawl" /\ ~run.force_rebuild /\ result = "ok"
    /\ run.refreshed_urls /= {}
    /\ \E u \in RefetchFailed : ChunksOfUrl(run.pre_chunks, u) /= {}

\* C32: a vector store that load_index or the incremental update read from
\* the saved index was read with the checksum file absent or matching the
\* index files, never with a checksum file the files do not match.
C32_DeserializedAfterVerification ==
    vectorstore.deserialized \in {"no", "none", "ok"}

\* load_index has run over an index whose files did not match the checksum
\* file, and has embedded the chunks again instead of reading it.
C32_Witness ==
    /\ pc = "done" /\ run.op = "load_index"
    /\ run.pre_faiss.exists /\ run.pre_faiss.checksum = "bad"
    /\ vectorstore.built /\ vectorstore.deserialized = "no"

\* C33: an index whose save was interrupted is never deserialized.  Without
\* tampering, the only saved index that has no matching checksum file is one
\* whose save did not reach the end of _save_faiss_checksum, so every vector
\* store that was deserialized was read under a matching checksum.
C33_InterruptedSaveNeverLoaded ==
    vectorstore.deserialized \in {"no", "ok"}

\* C34: every URL the recursive crawl returns is under the base URL prefix,
\* and no link that resolves outside the prefix is ever put in the queue.
C34_CrawlStaysUnderBase ==
    /\ \A i \in 1..Len(crawl.urls) : StartsWithBase(crawl.urls[i])
    /\ \A page \in crawl.queued : StartsWithBase(page)

\* s is in lastmod-descending order, the records without lastmod last.
NewestFirst(s) == \A i, j \in 1..Len(s) : i < j => s[i].lastmod >= s[j].lastmod

\* C35: the sitemap URLs discovery returns are in lastmod-descending order,
\* those without lastmod last, for a plain sitemap and for a sitemap index.
C35_SitemapNewestFirst ==
    crawl.pc = "discovered" => NewestFirst(crawl.sitemap_urls)

\* C36: with a positive max_pages, discover_and_crawl returns at most
\* max_pages URL records and no normalized URL twice, in every discovery mode.
C36_DiscoveryLimitedAndUnique ==
    (crawl.pc = "discovered" /\ crawler.max_pages > 0) =>
        /\ Len(crawl.result) <= crawler.max_pages
        /\ \A i, j \in 1..Len(crawl.result) : i /= j => crawl.result[i] /= crawl.result[j]

\* No URL is in the list of the recursive crawl twice.
UrlsOnce == \A i, j \in 1..Len(crawl.urls) : i /= j => crawl.urls[i] /= crawl.urls[j]

\* C37: on every link graph, cycles and self-links included, the recursive
\* crawl comes to its end, and its list holds every URL at most once.
C37_RecursiveCrawlTerminates ==
    /\ []UrlsOnce
    /\ <>(crawl.pc = "discovered")

\* The crawl has ended on a graph in which the base page links to itself and
\* lies on a cycle through another page, with both pages in the list.
C37_Witness ==
    /\ crawl.pc = "discovered"
    /\ \E i \in 1..Len(crawler.links[base_url]) : crawler.links[base_url][i].page = base_url
    /\ \E p \in Pages \ {base_url} :
          /\ \E i \in 1..Len(crawler.links[base_url]) : crawler.links[base_url][i].page = p
          /\ \E i \in 1..Len(crawler.links[p]) : crawler.links[p][i].page = base_url
          /\ p \in Range(crawl.urls) /\ base_url \in Range(crawl.urls)

\* A search over scored candidates has returned.
ScoredSearchReturned == pc = "done" /\ run.op = "search_scored"
\* The value of a score lies in [0, 1], is 1, is 0.
InUnitInterval(s) == 0 <= s.num /\ s.num <= s.den /\ s.den > 0
IsOne(s) == s.num = s.den
IsZero(s) == s.num = 0

\* C38: with re-ranking and at least one candidate, search returns at most
\* top_k results in non-increasing score order, every score is the min-max
\* normalization of the candidate's cross-encoder score over the batch and so
\* lies in [0, 1], the best candidate has score 1, the worst has 0 when the
\* scores differ, and every score is 1 when the cross-encoder's scores are all
\* the same; without re-ranking the fused order is kept and every score is 0.
C38_RerankScores ==
    ScoredSearchReturned =>
        LET s == run.search
            res == s.results
            n == Len(s.scores)
            lo == Min(Range(s.scores))
            hi == Max(Range(s.scores))
        IN /\ Len(res) <= s.top_k
           /\ (s.rerank_enabled /\ n > 0) =>
                /\ \A i, j \in 1..Len(res) : i < j => res[i].score.num >= res[j].score.num
                /\ \A i \in 1..Len(res) :
                     /\ InUnitInterval(res[i].score)
                     /\ res[i].score.den = (IF hi > lo THEN hi - lo ELSE 1)
                     /\ hi > lo => res[i].score.num = s.scores[res[i].candidate] - lo
                     /\ hi = lo => IsOne(res[i].score)
                /\ Len(res) >= 1 => IsOne(res[1].score) /\ s.scores[res[1].candidate] = hi
                /\ (Len(res) = n /\ hi > lo) =>
                      IsZero(res[n].score) /\ s.scores[res[n].candidate] = lo
           /\ ~(s.rerank_enabled /\ n > 0) =>
                \A i \in 1..Len(res) : res[i].candidate = i /\ IsZero(res[i].score)

\* A re-ranked search over three candidates with three different scores has
\* moved the last candidate to the front and returned two results.
C38_Witness ==
    /\ ScoredSearchReturned /\ run.search.rerank_enabled
    /\ Len(run.search.scores) = MaxCandidates
    /\ Len(run.search.results) = 2
    /\ run.search.results[1].candidate = MaxCandidates
    /\ ~IsOne(run.search.results[2].score) /\ ~IsZero(run.search.results[2].score)

\* C39: a search that runs next to the background contextualization does not
\* fail, and the retriever it has used was built whole: its BM25 part and its
\* vector part hold the same chunks, all of them from before the rebuild or
\* all of them from after it.
C39_SearchUsesWholeRetriever ==
    background.searcher.pc = "returned" =>
        /\ ~background.searcher.raised
        /\ background.searcher.used /= NoEnsemble =>
              /\ background.searcher.used.bm25 = background.searcher.used.vector
              /\ \/ \A d \in Range(background.searcher.used.bm25) : ~d.contextualized
                 \/ /\ background.task \in {"save_metadata", "done"}
                    /\ background.searcher.used.bm25 = chunks

\* A search has returned results while the background task had replaced the
\* vector store and not yet the BM25 retriever.
C39_Witness ==
    /\ background.searcher.pc = "returned"
    /\ background.searcher.results /= <<>>
    /\ background.task = "build_bm25"
    /\ vectorstore.docs /= bm25_retriever
(* ---- C40 ---------------------------------------------------------------*)
ChatEnded == chat.pc \in {"returned", "raised"}

ChatOutcome ==
    ChatEnded =>
        /\ chat.pc = "returned"
        /\ chat.finish_reason \in {"stop", "error", "length"}
        /\ chat.finish_reason = "length" =>
              /\ chat.backend_calls = chat.max_iterations
              /\ chat.tool_messages = chat.max_iterations
        /\ chat.variant = "stream_chat_response" =>
              /\ chat.events /= <<>>
              /\ chat.events[Len(chat.events)] = "[DONE]"
              /\ Cardinality({i \in 1..Len(chat.events) :
                                 chat.events[i] = "[DONE]"}) = 1

\* C40: one chat request calls the backend at most max_iterations times and
\* always finishes, with the answer ("stop") when a response has no tool
\* calls, with "error" on a timeout or connection error, or with "length"
\* when each of the max_iterations responses asked for tools; a streamed
\* response has exactly one [DONE] event and it is the last one.
C40_ChatLoopFinishes ==
    /\ [](chat.backend_calls <= chat.max_iterations)
    /\ []ChatOutcome
    /\ <>ChatEnded

====
